---- MODULE Spec2Model ----
(***************************************************************************)
(* Offline-first scan reconciliation core of the Palitana Yatra tracker:   *)
(* the server-side ingestion gate behind scanLogs.create and               *)
(* sync.pushChanges, the per-device outbox (pendingScans) filled by        *)
(* addScan, the push loop, and the watermark pull through                  *)
(* sync.incrementalSync.                                                   *)
(***************************************************************************)
EXTENDS Integers, Sequences, FiniteSets, TLC

\* ------------------------------------------------------------------------
\* Input domains and bounds of the model
\* ------------------------------------------------------------------------
Devices == {"D1", "D2"}
Participants == {"P1"}
ScanCheckpoints == {1}

\* capture attempts (addScan calls) over all devices
MaxScans == 2
\* the same, in the run about local duplicate suppression
DupRunScans == 3
\* the same, in the run with the pull loop
SyncRunScans == 1
\* clock ticks; one tick is TickMs
MaxTicks == 1
\* the same, in the run about local duplicate suppression
DupRunTicks == 2
\* transport / storage failures the environment injects into pushes
MaxFailures == 1
\* the same, in the run that exhausts the retries of one scan
RetryRunFailures == 10

TickMs == 5 * 60 * 1000

\* scan logs the dashboard is given
MaxLogs == 3
JatraParticipants == <<"P1", "P2">>
JatraCheckpoints == {1, 2, 3}
\* their timestamps, ms
JatraTimes == {0, 2 * 60 * 1000, 40 * 60 * 1000, 50 * 60 * 1000}
\* the instants at which the dashboard is rendered again, ms
JatraClock == {50 * 60 * 1000, 301 * 60 * 1000}

\* calls of scanLogs.create by an API client that sets every field itself
GateRunScans == 3
\* the deviceId such a client sends
GateDevices == {"D1"}
GateParticipants == {"P1", "P2"}
GateCheckpoints == {1, 2}
\* the scannedAt values such a client sends, ms
GateTimes == {0, 6 * 60 * 1000, 10 * 60 * 1000, 11 * 60 * 1000}

\* ------------------------------------------------------------------------
\* Program constants
\* ------------------------------------------------------------------------
\* server-side duplicate window (constants.ts)
DUPLICATE_SCAN_RATE_LIMIT_MS_Short == 5 * 60 * 1000
DUPLICATE_SCAN_RATE_LIMIT_MS_Long == 24 * 60 * 60 * 1000
DUPLICATE_SCAN_RATE_LIMIT_MS == 10 * 60 * 1000
\* client-side duplicate window (constants/checkpoints.ts)
DUPLICATE_RATE_LIMIT_MS == 10 * 60 * 1000
SYNC_MAX_RETRIES_OffByOne == 10 + 1
SYNC_MAX_RETRIES == 10
SYNC_BATCH_SIZE == 50

VARIABLES
    now,            \* wall clock, ms
    scanLogsTable,  \* server: scan_logs rows in insertion order
    gateLog,        \* history: every decision the ingestion gate returned
    pendingScans,   \* device: outbox, in capture order
    cachedScanLogs, \* device: scan logs merged from the server
    isOnline,       \* device: NetInfo state
    lastSyncAt,     \* device: pull watermark
    request,        \* device: the push request in flight, if any
    pull,           \* device: the incrementalSync query in flight, if any
    nextUuid,       \* next fresh scan id
    scanBudget,     \* capture attempts the run may make
    failBudget,     \* failures the environment may still inject
    tickBudget,     \* clock ticks the run may make
    scanLogs,       \* dashboard: the ScanLog[] the components are given
    jatraStats,     \* dashboard: calculateJatraStats per participant
    missingPilgrims, \* dashboard: the alerts of MissingPilgrimAlert
    sheetsConfigured, \* logger: sheets client and spreadsheet id are set
    recentScans,    \* logger: tracked scans per participant
    jatraCounts,    \* logger: Jatra number reached per participant and day
    failedScans,    \* logger: scans waiting for the retry processor
    scanLogsSheet,  \* logger: rows appended to the ScanLogs sheet
    jatraCompletionsSheet, \* logger: rows appended to the JatraCompletions sheet
    logScanCalls,   \* history: every logScan call with what it returned
    appendFailures, \* appends to the sheets that have failed so far
    purgedBy,       \* history: role of the caller of each scanLogs.clearAll
    queryLog,       \* history: what each scan log query returned
    inputLog,       \* history: what the input parser did with each raw call
    entries,        \* rate limiter: count and windowStart per key
    lastCheck,      \* history: what the last check() of each key returned, and when
    allowedAt,      \* history: per key and instant, the calls check() allowed
    isProcessing,   \* scanner screen: the isProcessing state
    renderedIsProcessing, \* scanner screen: isProcessing as the handlers of the last render see it
    invocations,    \* scanner screen: every call of a scan handler and how far it got
    cachedDeviceId, \* trpc client: the module's cachedDeviceId
    storedDeviceId, \* trpc client: the palitana_device_id item of AsyncStorage
    getDeviceIdCalls, \* trpc client: every getDeviceId call and what it returned
    lastResult,     \* what the last addScan call returned, and to which device
    suppressed,     \* history: captures addScan dropped as local duplicates
    resolved,       \* history: scan ids a device removed on a terminal reply
    capturedOffline \* history: scan ids captured while the device was offline

vars == <<now, scanLogsTable, gateLog, pendingScans, cachedScanLogs, isOnline,
          lastSyncAt, request, pull, nextUuid, scanBudget, failBudget,
          lastResult, suppressed, resolved, capturedOffline, tickBudget,
          scanLogs, jatraStats, missingPilgrims,
          sheetsConfigured, recentScans, jatraCounts, failedScans,
          scanLogsSheet, jatraCompletionsSheet, logScanCalls, appendFailures,
          purgedBy, queryLog, inputLog,
          entries, lastCheck, allowedAt,
          isProcessing, renderedIsProcessing, invocations,
          cachedDeviceId, storedDeviceId, getDeviceIdCalls>>

\* the state of the dashboard components
dashboardVars == <<scanLogs, jatraStats, missingPilgrims>>

\* the state of the Google Sheets logger
loggerVars == <<sheetsConfigured, recentScans, jatraCounts, failedScans,
                scanLogsSheet, jatraCompletionsSheet, logScanCalls, appendFailures>>

\* the state of the sync core
syncVars == <<now, scanLogsTable, gateLog, pendingScans, cachedScanLogs, isOnline,
              lastSyncAt, request, pull, nextUuid, scanBudget, failBudget,
              lastResult, suppressed, resolved, capturedOffline, tickBudget>>

\* history of the purges and queries of the scan log API
storeVars == <<purgedBy, queryLog, inputLog>>

\* the state of the scan rate limiter
limiterVars == <<entries, lastCheck, allowedAt>>

\* the state of the scanner screen
scannerVars == <<isProcessing, renderedIsProcessing, invocations>>

\* the state of getDeviceId
deviceIdVars == <<cachedDeviceId, storedDeviceId, getDeviceIdCalls>>

\* the state of the components beside the sync core, dashboard, logger and API
auxVars == <<limiterVars, scannerVars, deviceIdVars>>

\* what the sync core leaves alone
otherVars == <<dashboardVars, loggerVars, storeVars, auxVars>>

\* ------------------------------------------------------------------------
\* Helpers
\* ------------------------------------------------------------------------
Range(s) == {s[i] : i \in 1..Len(s)}

Max(S) == CHOOSE x \in S : \A y \in S : y <= x

RECURSIVE SelectSeqBy(_, _)
\* the subsequence of s whose uuid is not in ids
SelectSeqBy(s, ids) ==
    IF s = <<>> THEN <<>>
    ELSE IF Head(s).uuid \in ids THEN SelectSeqBy(Tail(s), ids)
         ELSE <<Head(s)>> \o SelectSeqBy(Tail(s), ids)

Uuids(s) == {s[i].uuid : i \in 1..Len(s)}

\* a scan as the client holds and submits it (scanLogSchema)
Scan(u, p, c, d, t) ==
    [uuid |-> u, participantUuid |-> p, checkpointId |-> c,
     deviceId |-> d, scannedAt |-> t]

ToScan(r) == Scan(r.uuid, r.participantUuid, r.checkpointId, r.deviceId, r.scannedAt)

NoRequest == [stage |-> "idle", kind |-> "none", scans |-> <<>>, results |-> <<>>,
              error |-> FALSE]
NoPull == [scanLogs |-> {}, stage |-> "idle"]
NoResult == [device |-> "none", success |-> FALSE, duplicate |-> FALSE]

\* ------------------------------------------------------------------------
\* Server: the ingestion gate (db.createScanLog)
\* ------------------------------------------------------------------------
ExistsUuid(table, uuid) == \E i \in 1..Len(table) : table[i].uuid = uuid

PairRows_BySubject(table, p, c) ==
    {i \in 1..Len(table) : table[i].participantUuid = p}

PairRows(table, p, c) ==
    {i \in 1..Len(table) :
        table[i].participantUuid = p /\ table[i].checkpointId = c}

\* DedupWindowState: the most recent accepted occurredAt of the pair
LastAcceptedAt(table, p, c) == Max({table[i].scannedAt : i \in PairRows(table, p, c)})

InDuplicateWindow_PerDevice(table, s) ==
    \E i \in PairRows(table, s.participantUuid, s.checkpointId) :
        /\ table[i].deviceId = s.deviceId
        /\ s.scannedAt - table[i].scannedAt < DUPLICATE_SCAN_RATE_LIMIT_MS

\* variants of the window check
InDuplicateWindow_LastSeen(table, s) ==
    LET seen == {e.scan.scannedAt : e \in
                    {x \in gateLog : /\ x.scan.participantUuid = s.participantUuid
                                     /\ x.scan.checkpointId = s.checkpointId
                                     /\ x.scan.uuid # s.uuid}}
    IN  /\ seen # {}
        /\ s.scannedAt - Max(seen) < DUPLICATE_SCAN_RATE_LIMIT_MS

InDuplicateWindow_Inclusive(table, s) ==
    /\ PairRows(table, s.participantUuid, s.checkpointId) # {}
    /\ s.scannedAt - LastAcceptedAt(table, s.participantUuid, s.checkpointId)
         <= DUPLICATE_SCAN_RATE_LIMIT_MS

\* step 2 of the gate: candidate.occurredAt - lastAccepted.occurredAt < window
InDuplicateWindow(table, s) ==
    /\ PairRows(table, s.participantUuid, s.checkpointId) # {}
    /\ s.scannedAt - LastAcceptedAt(table, s.participantUuid, s.checkpointId)
         < DUPLICATE_SCAN_RATE_LIMIT_MS

InsertRow(table, s, t) ==
    Append(table, [uuid |-> s.uuid, participantUuid |-> s.participantUuid,
                   checkpointId |-> s.checkpointId, deviceId |-> s.deviceId,
                   scannedAt |-> s.scannedAt, createdAt |-> t])

createScanLog_NoChecks(table, s, t) ==
    [table |-> InsertRow(table, s, t),
     result |-> [success |-> TRUE, duplicate |-> FALSE]]

\* check-then-act of the gate, one atomic decision per candidate
createScanLog(table, s, t) ==
    IF ExistsUuid(table, s.uuid)
    THEN [table |-> table, result |-> [success |-> TRUE, duplicate |-> FALSE]]
    ELSE IF InDuplicateWindow(table, s)
    THEN [table |-> table, result |-> [success |-> TRUE, duplicate |-> TRUE]]
    ELSE [table |-> InsertRow(table, s, t),
          result |-> [success |-> TRUE, duplicate |-> FALSE]]

\* db.getScanLogsUpdatedSince
getScanLogsUpdatedSince(table, since) ==
    {ToScan(table[i]) : i \in {j \in 1..Len(table) : table[j].createdAt >= since}}

\* ------------------------------------------------------------------------
\* Device: local view and local duplicate check (useOfflineSync)
\* ------------------------------------------------------------------------
PendingAsScans(d) == {ToScan(pendingScans[d][i]) : i \in 1..Len(pendingScans[d])}

\* scanLogs as the hook returns it: server cache plus the optimistic pending scans
LocalView(d) == cachedScanLogs[d] \cup PendingAsScans(d)

isDuplicateScan(d, p, c) ==
    \E s \in LocalView(d) :
        /\ s.participantUuid = p
        /\ s.checkpointId = c
        /\ now - s.scannedAt < DUPLICATE_RATE_LIMIT_MS

AddScanReturn_Awaiting(d) == [success |-> isOnline[d], duplicate |-> FALSE]

\* "4. Return success immediately"
AddScanReturn(d) == [success |-> TRUE, duplicate |-> FALSE]

\* ------------------------------------------------------------------------
\* Device: capture (addScan)
\* ------------------------------------------------------------------------
NewPending(u, p, c, d, t) ==
    [uuid |-> u, participantUuid |-> p, checkpointId |-> c, deviceId |-> d,
     scannedAt |-> t, retryCount |-> 0, needsAttention |-> FALSE,
     lastError |-> "none"]

CreateRequest(s) ==
    [stage |-> "sent", kind |-> "create", scans |-> <<s>>, results |-> <<>>,
     error |-> FALSE]

\* steps 2-5 of the scan flow: local duplicate check, enqueue, return, and
\* syncSingleScan started in the background when online
AddScan(d, p, c) ==
    /\ nextUuid <= scanBudget
    /\ nextUuid' = nextUuid + 1
    /\ IF isDuplicateScan(d, p, c)
       THEN /\ lastResult' = [device |-> d, success |-> TRUE, duplicate |-> TRUE]
            /\ suppressed' = suppressed \cup {Scan(nextUuid, p, c, d, now)}
            /\ UNCHANGED <<pendingScans, request, capturedOffline>>
       ELSE /\ pendingScans' = [pendingScans EXCEPT ![d] =
                                   Append(@, NewPending(nextUuid, p, c, d, now))]
            /\ lastResult' = [device |-> d, success |-> AddScanReturn(d).success,
                               duplicate |-> AddScanReturn(d).duplicate]
            /\ request' = IF isOnline[d] /\ request[d].stage = "idle"
                          THEN [request EXCEPT ![d] =
                                   CreateRequest(Scan(nextUuid, p, c, d, now))]
                          ELSE request
            /\ capturedOffline' = IF isOnline[d] THEN capturedOffline
                                  ELSE capturedOffline \cup {nextUuid}
            /\ UNCHANGED suppressed
    /\ UNCHANGED <<now, scanLogsTable, gateLog, cachedScanLogs, isOnline,
                   lastSyncAt, pull, scanBudget, failBudget, resolved,
                   tickBudget, otherVars>>

\* ------------------------------------------------------------------------
\* Device: push loop (syncPendingScans)
\* ------------------------------------------------------------------------
Min2(a, b) == IF a <= b THEN a ELSE b

Eligible(d) == SelectSeq(pendingScans[d], LAMBDA s : ~s.needsAttention)

Batch(d) ==
    LET e == Eligible(d)
    IN  [i \in 1..Min2(Len(e), SYNC_BATCH_SIZE) |-> ToScan(e[i])]

PushStart(d) ==
    /\ isOnline[d]
    /\ request[d].stage = "idle"
    /\ Batch(d) # <<>>
    /\ request' = [request EXCEPT ![d] =
                      [stage |-> "sent", kind |-> "pushChanges",
                       scans |-> Batch(d), results |-> <<>>, error |-> FALSE]]
    /\ UNCHANGED <<now, scanLogsTable, gateLog, pendingScans, cachedScanLogs,
                   isOnline, lastSyncAt, pull, nextUuid, scanBudget, failBudget,
                   lastResult, suppressed, resolved,
                   capturedOffline, tickBudget, otherVars>>

\* ------------------------------------------------------------------------
\* Server: scanLogs.create and sync.pushChanges
\* ------------------------------------------------------------------------
\* the gate decides the next candidate of device d's request
GateStep(d) ==
    LET req == request[d]
        s == req.scans[Len(req.results) + 1]
        r == createScanLog(scanLogsTable, s, now)
    IN  /\ scanLogsTable' = r.table
        /\ gateLog' = gateLog \cup
              {[scan |-> s, result |-> r.result,
                inserted |-> (r.table # scanLogsTable)]}
        /\ request' = [request EXCEPT ![d] =
              [req EXCEPT !.results = Append(@, r.result),
                          !.stage = IF Len(req.results) + 1 = Len(req.scans)
                                    THEN "replied" ELSE "sent"]]

ScanLogsCreate(d) ==
    /\ request[d].stage = "sent"
    /\ request[d].kind = "create"
    /\ GateStep(d)
    /\ UNCHANGED <<now, pendingScans, cachedScanLogs, isOnline, lastSyncAt, pull,
                   nextUuid, scanBudget, failBudget, lastResult, suppressed,
                   resolved,
                   capturedOffline, tickBudget, otherVars>>

\* one iteration of bulkCreateScanLogs inside sync.pushChanges
PushChangesStep(d) ==
    /\ request[d].stage = "sent"
    /\ request[d].kind = "pushChanges"
    /\ GateStep(d)
    /\ UNCHANGED <<now, pendingScans, cachedScanLogs, isOnline, lastSyncAt, pull,
                   nextUuid, scanBudget, failBudget, lastResult, suppressed,
                   resolved,
                   capturedOffline, tickBudget, otherVars>>

pushChangesResult_FailOnDuplicate(scanResults) ==
    [success |-> \A i \in 1..Len(scanResults) : ~scanResults[i].duplicate,
     scanLogsCreated |->
        Cardinality({i \in 1..Len(scanResults) : scanResults[i].success}),
     scanLogsDuplicate |->
        Cardinality({i \in 1..Len(scanResults) : scanResults[i].duplicate})]

\* what sync.pushChanges returns for the results of bulkCreateScanLogs
pushChangesResult(scanResults) ==
    [success |-> TRUE,
     scanLogsCreated |->
        Cardinality({i \in 1..Len(scanResults) : scanResults[i].success}),
     scanLogsDuplicate |->
        Cardinality({i \in 1..Len(scanResults) : scanResults[i].duplicate})]

\* the storage layer throws while the request is being served
StorageError(d) ==
    /\ request[d].stage = "sent"
    /\ failBudget > 0
    /\ failBudget' = failBudget - 1
    /\ request' = [request EXCEPT ![d] = [@ EXCEPT !.stage = "replied",
                                                    !.error = TRUE]]
    /\ UNCHANGED <<now, scanLogsTable, gateLog, pendingScans, cachedScanLogs,
                   isOnline, lastSyncAt, pull, nextUuid, scanBudget, lastResult,
                   suppressed, resolved,
                   capturedOffline, tickBudget, otherVars>>

\* ------------------------------------------------------------------------
\* Device: transport (fetchWithTimeout) and settling a push
\* ------------------------------------------------------------------------
\* the value the mutation resolves with, or the error it rejects with
ResponseOf_ThrowOnDuplicate(req) ==
    IF req.error \/ \E i \in 1..Len(req.results) : req.results[i].duplicate
    THEN [error |-> "TRPCError", ok |-> FALSE]
    ELSE [error |-> "none", ok |-> TRUE]

ResponseOf(req) ==
    IF req.error THEN [error |-> "TRPCError", ok |-> FALSE]
    ELSE IF req.kind = "create"
    THEN [error |-> "none", ok |-> req.results[1].success]
    ELSE [error |-> "none", ok |-> pushChangesResult(req.results).success]

fetchWithTimeout_ResolveOnAbort(timedOut, req) ==
    IF timedOut THEN [error |-> "none", ok |-> TRUE] ELSE ResponseOf(req)

\* controller.abort() after REQUEST_TIMEOUT rejects the fetch
fetchWithTimeout(timedOut, req) ==
    IF timedOut THEN [error |-> "AbortError", ok |-> FALSE] ELSE ResponseOf(req)

BumpRetry(ps, err) ==
    [ps EXCEPT !.retryCount = @ + 1,
               !.needsAttention = (ps.retryCount + 1 >= SYNC_MAX_RETRIES),
               !.lastError = err]

\* a terminal reply removes the batch; an error returns it to the retry schedule
SyncSettled(d, outcome) ==
    LET ids == Uuids(request[d].scans)
    IN  /\ IF outcome.ok
           THEN /\ pendingScans' = [pendingScans EXCEPT ![d] = SelectSeqBy(@, ids)]
                /\ resolved' = resolved \cup ids
           ELSE /\ pendingScans' = [pendingScans EXCEPT ![d] =
                      [i \in 1..Len(@) |->
                          IF @[i].uuid \in ids
                          THEN BumpRetry(@[i], outcome.error) ELSE @[i]]]
                /\ UNCHANGED resolved
        /\ request' = [request EXCEPT ![d] = NoRequest]

ReceiveResponse(d) ==
    /\ isOnline[d]
    /\ request[d].stage = "replied"
    /\ SyncSettled(d, fetchWithTimeout(FALSE, request[d]))
    /\ UNCHANGED <<now, scanLogsTable, gateLog, cachedScanLogs, isOnline,
                   lastSyncAt, pull, nextUuid, scanBudget, failBudget, lastResult,
                   suppressed,
                   capturedOffline, tickBudget, otherVars>>

FetchTimeout(d) ==
    /\ request[d].stage \in {"sent", "replied"}
    /\ failBudget > 0
    /\ failBudget' = failBudget - 1
    /\ SyncSettled(d, fetchWithTimeout(TRUE, request[d]))
    /\ UNCHANGED <<now, scanLogsTable, gateLog, cachedScanLogs, isOnline,
                   lastSyncAt, pull, nextUuid, scanBudget, lastResult, suppressed,
                   capturedOffline, tickBudget, otherVars>>

\* ------------------------------------------------------------------------
\* Pull loop: sync.incrementalSync
\* ------------------------------------------------------------------------
\* the device sends lastSyncAt and the handler awaits the queries ...
IncrementalSyncQuery(d) ==
    /\ isOnline[d]
    /\ pull[d].stage = "idle"
    /\ pull' = [pull EXCEPT ![d] =
                   [scanLogs |-> getScanLogsUpdatedSince(scanLogsTable,
                                                         lastSyncAt[d]),
                    stage |-> "queried"]]
    /\ UNCHANGED <<now, scanLogsTable, gateLog, pendingScans, cachedScanLogs,
                   isOnline, lastSyncAt, request, nextUuid, scanBudget,
                   failBudget, lastResult, suppressed, resolved,
                   capturedOffline, tickBudget, otherVars>>

IncrementalSyncReply_NewestScan(d) ==
    /\ isOnline[d]
    /\ pull[d].stage = "queried"
    /\ cachedScanLogs' = [cachedScanLogs EXCEPT ![d] = @ \cup pull[d].scanLogs]
    /\ lastSyncAt' = [lastSyncAt EXCEPT ![d] =
                         IF pull[d].scanLogs = {} THEN @
                         ELSE Max({s.scannedAt : s \in pull[d].scanLogs})]
    /\ pull' = [pull EXCEPT ![d] = NoPull]
    /\ UNCHANGED <<now, scanLogsTable, gateLog, pendingScans, isOnline, request,
                   nextUuid, scanBudget, failBudget, lastResult, suppressed,
                   resolved,
                   capturedOffline, tickBudget, otherVars>>

\* ... then stamps the reply with syncedAt = new Date(); the device merges the
\* rows (a union) and stores syncedAt as its watermark
IncrementalSyncReply(d) ==
    /\ isOnline[d]
    /\ pull[d].stage = "queried"
    /\ cachedScanLogs' = [cachedScanLogs EXCEPT ![d] = @ \cup pull[d].scanLogs]
    /\ lastSyncAt' = [lastSyncAt EXCEPT ![d] = now]
    /\ pull' = [pull EXCEPT ![d] = NoPull]
    /\ UNCHANGED <<now, scanLogsTable, gateLog, pendingScans, isOnline, request,
                   nextUuid, scanBudget, failBudget, lastResult, suppressed,
                   resolved,
                   capturedOffline, tickBudget, otherVars>>

PullTimeout(d) ==
    /\ ~isOnline[d]
    /\ pull[d].stage # "idle"
    /\ pull' = [pull EXCEPT ![d] = NoPull]
    /\ UNCHANGED <<now, scanLogsTable, gateLog, pendingScans, cachedScanLogs,
                   isOnline, lastSyncAt, request, nextUuid, scanBudget,
                   failBudget, lastResult, suppressed, resolved,
                   capturedOffline, tickBudget, otherVars>>

\* ------------------------------------------------------------------------
\* Server: scanLogs.create called directly (public procedure)
\* ------------------------------------------------------------------------
\* any API client posts a scan of its own making, or posts one again
DirectCreate(s) ==
    /\ \/ s.uuid = nextUuid /\ nextUuid <= scanBudget /\ nextUuid' = nextUuid + 1
       \/ (\E e \in gateLog : e.scan = s) /\ nextUuid' = nextUuid
    /\ LET r == createScanLog(scanLogsTable, s, now)
       IN  /\ scanLogsTable' = r.table
           /\ gateLog' = gateLog \cup
                 {[scan |-> s, result |-> r.result,
                   inserted |-> (r.table # scanLogsTable)]}
    /\ UNCHANGED <<now, pendingScans, cachedScanLogs, isOnline, lastSyncAt,
                   request, pull, scanBudget, failBudget, lastResult, suppressed,
                   resolved, capturedOffline, tickBudget, otherVars>>

\* ------------------------------------------------------------------------
\* Server: input parsing of the scan log mutations (scanLogSchema)
\* ------------------------------------------------------------------------
MaxInputs == 2

\* raw values standing for what zod refuses: a string that is not a UUID, and
\* a scannedAt that is absent or not an ISO datetime
MalformedUuid == 0
MalformedParticipantUuid == "invalid-uuid"
MalformedScannedAt == -1
InputCheckpoints == {0, 1}

WellFormedInputs == {Scan(u, "P1", 1, "D1", 0) : u \in 1..2}

\* raw inputs of the API: the well-formed ones and each with one field spoiled
RawInputs ==
    WellFormedInputs
    \cup {[w EXCEPT !.uuid = MalformedUuid] : w \in WellFormedInputs}
    \cup {[w EXCEPT !.participantUuid = MalformedParticipantUuid] :
             w \in WellFormedInputs}
    \cup {[w EXCEPT !.checkpointId = c] :
             w \in WellFormedInputs, c \in InputCheckpoints}
    \cup {[w EXCEPT !.scannedAt = MalformedScannedAt] : w \in WellFormedInputs}

scanLogSchema_AnyCheckpoint(input) ==
    /\ input.uuid # MalformedUuid
    /\ input.participantUuid # MalformedParticipantUuid
    /\ input.scannedAt # MalformedScannedAt

\* z.object({ uuid: uuid(), participantUuid: uuid(),
\*            checkpointId: int().positive(), scannedAt: datetime() })
scanLogSchema(input) ==
    /\ input.uuid # MalformedUuid
    /\ input.participantUuid # MalformedParticipantUuid
    /\ input.checkpointId > 0
    /\ input.scannedAt # MalformedScannedAt

\* z.array(scanLogSchema): one refused element refuses the array
scanLogsArraySchema(inputs) == \A i \in 1..Len(inputs) : scanLogSchema(inputs[i])

\* db.bulkCreateScanLogs: createScanLog for each scan in turn
RECURSIVE bulkCreateScanLogs(_, _, _, _)
bulkCreateScanLogs(table, log, scans, t) ==
    IF scans = <<>> THEN [table |-> table, log |-> log]
    ELSE LET r == createScanLog(table, Head(scans), t)
         IN  bulkCreateScanLogs(r.table,
                 log \cup {[scan |-> Head(scans), result |-> r.result,
                            inserted |-> (r.table # table)]},
                 Tail(scans), t)

InputEntry(procedure, inputs, code, storedBefore, storedAfter) ==
    [inputs |-> inputs, procedure |-> procedure, code |-> code,
     storedBefore |-> storedBefore, storedAfter |-> storedAfter]

\* a mutation whose input is parsed before its resolver runs: a parse failure
\* answers BAD_REQUEST and the resolver, the only caller of the store, is skipped
ParsedMutation(procedure, inputs, parsed) ==
    /\ Len(inputLog) < MaxInputs
    /\ LET r == IF parsed
                THEN bulkCreateScanLogs(scanLogsTable, gateLog, inputs, now)
                ELSE [table |-> scanLogsTable, log |-> gateLog]
       IN  /\ scanLogsTable' = r.table
           /\ gateLog' = r.log
           /\ inputLog' = Append(inputLog,
                 InputEntry(procedure, inputs,
                            IF parsed THEN "OK" ELSE "BAD_REQUEST",
                            Len(scanLogsTable), Len(r.table)))
    /\ UNCHANGED <<now, pendingScans, cachedScanLogs, isOnline, lastSyncAt,
                   request, pull, nextUuid, scanBudget, failBudget, lastResult,
                   suppressed, resolved, capturedOffline, tickBudget,
                   dashboardVars, loggerVars, purgedBy, queryLog, auxVars>>

\* scanLogs.create: .input(scanLogSchema)
ScanLogsCreateInput(input) ==
    ParsedMutation("scanLogs.create", <<input>>, scanLogSchema(input))

\* sync.pushChanges: .input(z.object({ scanLogs: z.array(scanLogSchema) }))
PushChangesInput(inputs) ==
    ParsedMutation("sync.pushChanges", inputs, scanLogsArraySchema(inputs))

\* ------------------------------------------------------------------------
\* Server: scan log queries and scanLogs.clearAll (public procedures)
\* ------------------------------------------------------------------------
StoreRunScans == 2
MaxQueries == 2
MaxPurges == 1
StoreTimes == {0}
\* ctx.user of the caller: an administrator, another user, or nobody
CallerRoles == {"admin", "user", "none"}

\* db.getAllScanLogs
getAllScanLogs(table) == {ToScan(table[i]) : i \in 1..Len(table)}

getScanLogsByParticipant_Latest(table, participantUuid) ==
    LET mine == {i \in 1..Len(table) : table[i].participantUuid = participantUuid}
    IN  {ToScan(table[i]) : i \in {j \in mine : \A k \in mine : k <= j}}

\* db.getScanLogsByParticipant
getScanLogsByParticipant(table, participantUuid) ==
    {ToScan(table[i]) :
        i \in {j \in 1..Len(table) : table[j].participantUuid = participantUuid}}

\* db.getScanLogsByCheckpoint
getScanLogsByCheckpoint(table, checkpointId) ==
    {ToScan(table[i]) :
        i \in {j \in 1..Len(table) : table[j].checkpointId = checkpointId}}

\* one answered query; stored is the number of rows the table held
QueryEntry(kind, participantUuid, checkpointId, rows, stored) ==
    [participantUuid |-> participantUuid, checkpointId |-> checkpointId,
     kind |-> kind, rows |-> rows, stored |-> stored]

Answer(entry) ==
    /\ Len(queryLog) < MaxQueries
    /\ queryLog' = Append(queryLog, entry)
    /\ UNCHANGED <<syncVars, dashboardVars, loggerVars, purgedBy, inputLog,
                   auxVars>>

ScanLogsList_Cached ==
    LET earlier == {i \in 1..Len(queryLog) : queryLog[i].kind = "list"}
        rows == IF earlier = {} THEN getAllScanLogs(scanLogsTable)
                ELSE queryLog[CHOOSE i \in earlier : TRUE].rows
    IN  Answer(QueryEntry("list", "any", 0, rows, Len(scanLogsTable)))

\* scanLogs.list
ScanLogsList ==
    Answer(QueryEntry("list", "any", 0, getAllScanLogs(scanLogsTable),
                      Len(scanLogsTable)))

\* scanLogs.getByParticipant
ScanLogsGetByParticipant(participantUuid) ==
    Answer(QueryEntry("getByParticipant", participantUuid, 0,
                      getScanLogsByParticipant(scanLogsTable, participantUuid),
                      Len(scanLogsTable)))

\* scanLogs.getByCheckpoint
ScanLogsGetByCheckpoint(checkpointId) ==
    Answer(QueryEntry("getByCheckpoint", "any", checkpointId,
                      getScanLogsByCheckpoint(scanLogsTable, checkpointId),
                      Len(scanLogsTable)))

\* scanLogs.clearAll: a public procedure, the caller's role is not looked at
ScanLogsClearAll(role) ==
    /\ Len(purgedBy) < MaxPurges
    /\ scanLogsTable' = <<>>
    /\ purgedBy' = Append(purgedBy, role)
    /\ UNCHANGED <<now, gateLog, pendingScans, cachedScanLogs, isOnline,
                   lastSyncAt, request, pull, nextUuid, scanBudget, failBudget,
                   lastResult, suppressed, resolved, capturedOffline, tickBudget,
                   dashboardVars, loggerVars, queryLog, inputLog, auxVars>>

\* ------------------------------------------------------------------------
\* Dashboard: utils/jatra-calculator.ts
\* ------------------------------------------------------------------------
null == -1

RECURSIVE InsertByTimestamp(_, _)
\* x goes behind every element that is not later: Array.prototype.sort is stable
InsertByTimestamp(s, x) ==
    IF s = <<>> THEN <<x>>
    ELSE IF Head(s).timestamp <= x.timestamp
         THEN <<Head(s)>> \o InsertByTimestamp(Tail(s), x)
         ELSE <<x>> \o s

RECURSIVE SortByTimestamp(_)
\* .sort((a, b) => a.timestamp - b.timestamp)
SortByTimestamp(s) ==
    IF s = <<>> THEN <<>>
    ELSE InsertByTimestamp(SortByTimestamp(SubSeq(s, 1, Len(s) - 1)), s[Len(s)])

ParticipantLogs_Unsorted(participantId, logs) ==
    SelectSeq(logs, LAMBDA l : l.participantId = participantId)

ParticipantLogs(participantId, logs) ==
    SortByTimestamp(SelectSeq(logs, LAMBDA l : l.participantId = participantId))

CountAt(logs, c) == Cardinality({i \in 1..Len(logs) : logs[i].checkpointId = c})

calculateJatraStats_UpToNow(participantId, logs) ==
    LET participantLogs ==
            SelectSeq(ParticipantLogs(participantId, logs),
                      LAMBDA l : l.timestamp <= now)
        ghetiScans == CountAt(participantLogs, 2)
        aamliScans == CountAt(participantLogs, 1)
        frontSideScans == CountAt(participantLogs, 3)
    IN  [participantId |-> participantId,
         ghetiScans |-> ghetiScans,
         aamliScans |-> aamliScans,
         frontSideScans |-> frontSideScans,
         totalJatras |-> ghetiScans,
         lastScanTime |-> IF participantLogs = <<>> THEN null
                          ELSE participantLogs[Len(participantLogs)].timestamp,
         isCurrentlyDescending |-> aamliScans > ghetiScans]

calculateJatraStats(participantId, logs) ==
    LET participantLogs == ParticipantLogs(participantId, logs)
        ghetiScans == CountAt(participantLogs, 2)
        aamliScans == CountAt(participantLogs, 1)
        frontSideScans == CountAt(participantLogs, 3)
    IN  [participantId |-> participantId,
         ghetiScans |-> ghetiScans,
         aamliScans |-> aamliScans,
         frontSideScans |-> frontSideScans,
         totalJatras |-> ghetiScans,
         lastScanTime |-> IF participantLogs = <<>> THEN null
                          ELSE participantLogs[Len(participantLogs)].timestamp,
         isCurrentlyDescending |-> aamliScans > ghetiScans]

getParticipantsInTransit(participantIds, logs) ==
    SelectSeq(participantIds,
              LAMBDA id : calculateJatraStats(id, logs).isCurrentlyDescending)

getJatraStatusText(stats) ==
    IF stats.isCurrentlyDescending THEN "Currently descending"
    ELSE IF stats.totalJatras = 0 /\ stats.aamliScans = 0 THEN "Not started"
    ELSE "Jatras"

RECURSIVE PairsFrom(_, _)
\* sortedScans.forEach of the Jatra test: an Aamli scan sets lastAamli, a Gheti
\* scan with lastAamli set counts one Jatra and clears it
PairsFrom(sortedScans, lastAamli) ==
    IF sortedScans = <<>> THEN [lastAamli |-> lastAamli, jatraCount |-> 0]
    ELSE LET scan == Head(sortedScans)
         IN  IF scan.checkpointId = 1 THEN PairsFrom(Tail(sortedScans), TRUE)
             ELSE IF scan.checkpointId = 2 /\ lastAamli
             THEN LET r == PairsFrom(Tail(sortedScans), FALSE)
                  IN  [r EXCEPT !.jatraCount = @ + 1]
             ELSE PairsFrom(Tail(sortedScans), lastAamli)

\* ------------------------------------------------------------------------
\* Reports: exportToCSV, the JatraCompletions section
\* ------------------------------------------------------------------------
\* the forEach over the participant's sorted logs: an Aamli scan becomes
\* lastAamliScan, a Gheti scan with a lastAamliScan writes a row and resets it
RECURSIVE jatraCompletionRows(_, _, _)
jatraCompletionRows(sortedLogs, lastAamliScan, jatraCount) ==
    IF sortedLogs = <<>> THEN jatraCount
    ELSE LET log == Head(sortedLogs)
         IN  IF log.checkpointId = 1
             THEN jatraCompletionRows(Tail(sortedLogs), <<log>>, jatraCount)
             ELSE IF log.checkpointId = 2 /\ lastAamliScan # <<>>
             THEN jatraCompletionRows(Tail(sortedLogs), <<>>, jatraCount + 1)
             ELSE jatraCompletionRows(Tail(sortedLogs), lastAamliScan, jatraCount)

\* the number of JatraCompletions rows the export writes for one participant
exportToCSV(participantId, logs) ==
    jatraCompletionRows(ParticipantLogs(participantId, logs), <<>>, 0)

\* ------------------------------------------------------------------------
\* Dashboard: components/missing-pilgrim-alert.tsx
\* ------------------------------------------------------------------------
TRANSIT_ALERT_THRESHOLD_4h == 4 * 60 * 60 * 1000
TRANSIT_ALERT_THRESHOLD == 5 * 60 * 60 * 1000
INACTIVE_ALERT_THRESHOLD == 5 * 60 * 60 * 1000

checkpointNames(c) ==
    IF c = 1 THEN "Aamli" ELSE IF c = 2 THEN "Gheti"
    ELSE IF c = 3 THEN "Front Side" ELSE "Unknown"

RECURSIVE InsertByTimestampDesc(_, _)
InsertByTimestampDesc(s, x) ==
    IF s = <<>> THEN <<x>>
    ELSE IF Head(s).timestamp >= x.timestamp
         THEN <<Head(s)>> \o InsertByTimestampDesc(Tail(s), x)
         ELSE <<x>> \o s

RECURSIVE SortByTimestampDesc(_)
\* .sort((a, b) => b.timestamp - a.timestamp)
SortByTimestampDesc(s) ==
    IF s = <<>> THEN <<>>
    ELSE InsertByTimestampDesc(SortByTimestampDesc(SubSeq(s, 1, Len(s) - 1)),
                               s[Len(s)])

RECURSIVE InsertByTimeSinceDesc(_, _)
InsertByTimeSinceDesc(s, x) ==
    IF s = <<>> THEN <<x>>
    ELSE IF Head(s).timeSinceLastScan >= x.timeSinceLastScan
         THEN <<Head(s)>> \o InsertByTimeSinceDesc(Tail(s), x)
         ELSE <<x>> \o s

RECURSIVE SortByTimeSinceDesc(_)
\* alerts.sort((a, b) => b.timeSinceLastScan - a.timeSinceLastScan)
SortByTimeSinceDesc(s) ==
    IF s = <<>> THEN <<>>
    ELSE InsertByTimeSinceDesc(SortByTimeSinceDesc(SubSeq(s, 1, Len(s) - 1)),
                               s[Len(s)])

\* the alert, if any, the loop body pushes for one participant
AlertsFor(participant, logs, t) ==
    LET stats == calculateJatraStats(participant, logs)
        timeSinceLastScan == t - stats.lastScanTime
        timeSinceLastScanMinutes == timeSinceLastScan \div 60000
        lastLog == SortByTimestampDesc(
                       SelectSeq(logs, LAMBDA l : l.participantId = participant))[1]
    IN  IF stats.lastScanTime = null THEN <<>>
        ELSE IF stats.isCurrentlyDescending
                /\ timeSinceLastScan > TRANSIT_ALERT_THRESHOLD
        THEN <<[lastScanTime |-> stats.lastScanTime, timeSinceLastScan |-> timeSinceLastScanMinutes,
                participant |-> participant, alertType |-> "in_transit",
                lastCheckpoint |-> "Aamli"]>>
        ELSE IF timeSinceLastScan > INACTIVE_ALERT_THRESHOLD
        THEN <<[lastScanTime |-> stats.lastScanTime, timeSinceLastScan |-> timeSinceLastScanMinutes,
                participant |-> participant,
                alertType |-> "inactive",
                lastCheckpoint |-> checkpointNames(lastLog.checkpointId)]>>
        ELSE <<>>

RECURSIVE CollectAlerts(_, _, _)
CollectAlerts(participants, logs, t) ==
    IF participants = <<>> THEN <<>>
    ELSE AlertsFor(Head(participants), logs, t)
            \o CollectAlerts(Tail(participants), logs, t)

\* the useMemo of MissingPilgrimAlert
MissingPilgrims(participants, logs, t) ==
    SortByTimeSinceDesc(CollectAlerts(participants, logs, t))

AllJatraStats(logs) ==
    [i \in 1..Len(JatraParticipants) |->
        calculateJatraStats(JatraParticipants[i], logs)]

\* the components are rendered with the logs and the clock of that moment
Render(logs, t) ==
    /\ jatraStats' = AllJatraStats(logs)
    /\ missingPilgrims' = MissingPilgrims(JatraParticipants, logs, t)

ScanLog(participantId, checkpointId, timestamp) ==
    [checkpointId |-> checkpointId, timestamp |-> timestamp,
     participantId |-> participantId]

\* the scan logs grow by one accepted scan and the dashboard renders again; the
\* accept path keeps two scans of one pair at least the duplicate window apart
ReceiveScanLog(log) ==
    /\ Len(scanLogs) < scanBudget
    /\ \A i \in 1..Len(scanLogs) :
          (scanLogs[i].participantId = log.participantId
             /\ scanLogs[i].checkpointId = log.checkpointId)
          => \/ log.timestamp - scanLogs[i].timestamp >= DUPLICATE_RATE_LIMIT_MS
             \/ scanLogs[i].timestamp - log.timestamp >= DUPLICATE_RATE_LIMIT_MS
    /\ scanLogs' = Append(scanLogs, log)
    /\ Render(scanLogs', now)
    /\ UNCHANGED <<syncVars, loggerVars, storeVars, auxVars>>

\* time passes and the poll hands the components the same logs again
Refresh(t) ==
    /\ t > now
    /\ now' = t
    /\ Render(scanLogs, t)
    /\ UNCHANGED <<scanLogsTable, gateLog, pendingScans, cachedScanLogs, isOnline,
                   lastSyncAt, request, pull, nextUuid, scanBudget, failBudget,
                   lastResult, suppressed, resolved, capturedOffline, tickBudget,
                   scanLogs, loggerVars, storeVars, auxVars>>

\* ------------------------------------------------------------------------
\* Environment: connectivity and time
\* ------------------------------------------------------------------------
GoOffline(d) ==
    /\ isOnline[d]
    /\ isOnline' = [isOnline EXCEPT ![d] = FALSE]
    /\ UNCHANGED <<now, scanLogsTable, gateLog, pendingScans, cachedScanLogs,
                   lastSyncAt, request, pull, nextUuid, scanBudget, failBudget,
                   lastResult, suppressed, resolved,
                   capturedOffline, tickBudget, otherVars>>

GoOnline(d) ==
    /\ ~isOnline[d]
    /\ isOnline' = [isOnline EXCEPT ![d] = TRUE]
    /\ UNCHANGED <<now, scanLogsTable, gateLog, pendingScans, cachedScanLogs,
                   lastSyncAt, request, pull, nextUuid, scanBudget, failBudget,
                   lastResult, suppressed, resolved,
                   capturedOffline, tickBudget, otherVars>>

Tick ==
    /\ now < tickBudget * TickMs
    /\ now' = now + TickMs
    /\ UNCHANGED <<scanLogsTable, gateLog, pendingScans, cachedScanLogs, isOnline,
                   lastSyncAt, request, pull, nextUuid, scanBudget, failBudget,
                   lastResult, suppressed, resolved,
                   capturedOffline, tickBudget, otherVars>>

\* ------------------------------------------------------------------------
\* Specifications
\* ------------------------------------------------------------------------
\* ------------------------------------------------------------------------
\* Google Sheets logger
\* ------------------------------------------------------------------------
LoggerRunScans == 4
MaxAppendFailures == 1
LoggerParticipants == {"P1"}
LoggerCheckpoints == {1, 2}
LoggerDays == {1}
LoggerTimes == {0, 5 * 60 * 1000, 20 * 60 * 1000, 250 * 60 * 1000}

CHECKPOINT_AAMLI == 1
CHECKPOINT_GHETI == 2
maxRetryQueueSize_Twice == 2 * 1000
maxRetryQueueSize == 1000

ScanLogData(participantUuid, checkpointId, scannedAt, day) ==
    [participantUuid |-> participantUuid, checkpointId |-> checkpointId,
     scannedAt |-> scannedAt, day |-> day]

\* Math.round of a duration in minutes
RoundMinutes(ms) == (ms + 30 * 1000) \div (60 * 1000)

\* the warnings and errors validateScan collects for a scan
ValidationFindings(scanData) ==
    LET participantScans == recentScans[scanData.participantUuid]
        hasLast == participantScans # <<>>
        lastScan == participantScans[Len(participantScans)]
        hasRecentAamli ==
            \E i \in 1..Len(participantScans) :
                /\ participantScans[i].checkpointId = CHECKPOINT_AAMLI
                /\ participantScans[i].day = scanData.day
                /\ scanData.scannedAt - participantScans[i].timestamp
                      < 4 * 60 * 60 * 1000
        afterAamli == /\ scanData.checkpointId = CHECKPOINT_GHETI
                      /\ hasLast
                      /\ lastScan.checkpointId = CHECKPOINT_AAMLI
        durationMs == scanData.scannedAt - lastScan.timestamp
    IN  [warnings |->
            (IF scanData.checkpointId = CHECKPOINT_GHETI /\ ~hasRecentAamli
             THEN {"Gheti scan without prior Aamli scan"} ELSE {})
            \cup (IF afterAamli /\ durationMs < 15 * 60 * 1000
                  THEN {"Unusually fast Jatra"} ELSE {})
            \cup (IF afterAamli /\ durationMs > 180 * 60 * 1000
                  THEN {"Unusually slow Jatra"} ELSE {}),
         errors |->
            IF /\ hasLast
               /\ lastScan.checkpointId = scanData.checkpointId
               /\ scanData.scannedAt - lastScan.timestamp < 10 * 60 * 1000
            THEN {"Duplicate scan"} ELSE {}]

validateScan_BlockOnWarning(scanData) ==
    LET found == ValidationFindings(scanData)
    IN  [warnings |-> found.warnings,
         errors |-> found.errors,
         isValid |-> found.errors = {} /\ found.warnings = {}]

validateScan(scanData) ==
    LET found == ValidationFindings(scanData)
    IN  [warnings |-> found.warnings,
         errors |-> found.errors,
         isValid |-> found.errors = {}]

NoValidation == [warnings |-> {}, errors |-> {}, isValid |-> TRUE]

\* what logScan returns; validated is false when the call returned before
\* validating
LogScanResult(success, validated, validation) ==
    [success |-> success, validated |-> validated, validation |-> validation]

\* the row logScanDirect appends to the ScanLogs sheet
ScanLogsRow(scanData) ==
    [participant |-> scanData.participantUuid, day |-> scanData.day,
     time |-> scanData.scannedAt,
     checkpoint |-> scanData.checkpointId]

TrackedScan(scanData) ==
    [checkpointId |-> scanData.checkpointId, timestamp |-> scanData.scannedAt,
     day |-> scanData.day]

\* the row recordJatraCompletion appends, given the scans tracked so far
JatraCompletionsRow(scanData, tracked, jatraNumber) ==
    LET aamliScans ==
            SelectSeq(tracked,
                      LAMBDA s : s.checkpointId = CHECKPOINT_AAMLI
                                 /\ s.day = scanData.day)
        startTime == IF aamliScans = <<>> THEN scanData.scannedAt
                     ELSE aamliScans[Len(aamliScans)].timestamp
    IN  [participant |-> scanData.participantUuid, day |-> scanData.day,
         jatraNumber |-> jatraNumber, startTime |-> startTime,
         endTime |-> scanData.scannedAt,
         durationMinutes |-> RoundMinutes(scanData.scannedAt - startTime)]

\* recordJatraCompletion: the counter moves before the append is tried
recordJatraCompletion(scanData, tracked, appendOk) ==
    LET jatraKey == <<scanData.participantUuid, scanData.day>>
        newJatraNumber == jatraCounts[jatraKey] + 1
    IN  /\ jatraCounts' = [jatraCounts EXCEPT ![jatraKey] = newJatraNumber]
        /\ jatraCompletionsSheet' =
              IF appendOk
              THEN Append(jatraCompletionsSheet,
                          JatraCompletionsRow(scanData, tracked, newJatraNumber))
              ELSE jatraCompletionsSheet

\* logScan, with the outcome of each append to the sheet chosen by the
\* environment
LogScan(scanData, appendOk, completionOk) ==
    /\ Len(logScanCalls) < scanBudget
    /\ LET attempted == sheetsConfigured /\ validateScan(scanData).isValid
           completion == attempted /\ appendOk
                         /\ scanData.checkpointId = CHECKPOINT_GHETI
           failed == (IF attempted /\ ~appendOk THEN 1 ELSE 0)
                     + (IF completion /\ ~completionOk THEN 1 ELSE 0)
       IN  /\ appendFailures + failed <= failBudget
           /\ appendFailures' = appendFailures + failed
    /\ IF ~sheetsConfigured
       THEN /\ logScanCalls' =
                  Append(logScanCalls,
                         [result |-> LogScanResult(TRUE, FALSE, NoValidation),
                          scanData |-> scanData])
            /\ UNCHANGED <<recentScans, jatraCounts, failedScans,
                           scanLogsSheet, jatraCompletionsSheet>>
       ELSE LET validation == validateScan(scanData)
                tracked == Append(recentScans[scanData.participantUuid],
                                  TrackedScan(scanData))
            IN  IF ~validation.isValid
                THEN /\ logScanCalls' =
                           Append(logScanCalls,
                                  [result |-> LogScanResult(FALSE, TRUE, validation),
                                   scanData |-> scanData])
                     /\ UNCHANGED <<recentScans, jatraCounts, failedScans,
                                    scanLogsSheet, jatraCompletionsSheet>>
                ELSE /\ logScanCalls' =
                           Append(logScanCalls,
                                  [result |-> LogScanResult(appendOk, TRUE, validation),
                                   scanData |-> scanData])
                     /\ IF appendOk
                        THEN /\ scanLogsSheet' =
                                   Append(scanLogsSheet, ScanLogsRow(scanData))
                             /\ recentScans' =
                                   [recentScans EXCEPT
                                       ![scanData.participantUuid] = tracked]
                             /\ IF scanData.checkpointId = CHECKPOINT_GHETI
                                THEN recordJatraCompletion(scanData, tracked,
                                                           completionOk)
                                ELSE UNCHANGED <<jatraCounts, jatraCompletionsSheet>>
                             /\ UNCHANGED failedScans
                        ELSE /\ failedScans' =
                                   IF Len(failedScans) < maxRetryQueueSize
                                   THEN Append(failedScans, scanData)
                                   ELSE failedScans
                             /\ UNCHANGED <<recentScans, jatraCounts,
                                            scanLogsSheet, jatraCompletionsSheet>>
    /\ UNCHANGED <<sheetsConfigured, syncVars, dashboardVars, storeVars, auxVars>>

\* the rows a retry pass appends and the scans it puts back, given the
\* outcome of each append
RetryPass(scansToRetry, outcomes, sheet, failed) ==
    LET order == [i \in 1..Len(scansToRetry) |-> i]
        written == SelectSeq(order, LAMBDA i : outcomes[i])
        refused == SelectSeq(order, LAMBDA i : ~outcomes[i])
        room == IF maxRetryQueueSize > Len(failed)
                THEN maxRetryQueueSize - Len(failed) ELSE 0
        kept == IF Len(refused) <= room THEN Len(refused) ELSE room
    IN  [failed |-> failed \o [k \in 1..kept |-> scansToRetry[refused[k]]],
         sheet |-> sheet \o [k \in 1..Len(written) |->
                                ScanLogsRow(scansToRetry[written[k]])]]

\* the 30 s interval of startRetryProcessor fires
RetryProcessor(outcomes) ==
    /\ failedScans # <<>>
    /\ Len(outcomes) = Len(failedScans)
    /\ LET failed == Cardinality({i \in 1..Len(outcomes) : ~outcomes[i]})
       IN  /\ appendFailures + failed <= failBudget
           /\ appendFailures' = appendFailures + failed
    /\ LET pass == RetryPass(failedScans, outcomes, scanLogsSheet, <<>>)
       IN  /\ scanLogsSheet' = pass.sheet
           /\ failedScans' = pass.failed
    /\ UNCHANGED <<sheetsConfigured, recentScans, jatraCounts,
                   jatraCompletionsSheet, logScanCalls, syncVars, dashboardVars,
                   storeVars, auxVars>>

\* the logger after construction and init()
LoggerConstructed(configured) ==
    /\ sheetsConfigured = configured
    /\ recentScans = [p \in LoggerParticipants |-> <<>>]
    /\ jatraCounts = [k \in LoggerParticipants \X LoggerDays |-> 0]
    /\ failedScans = <<>>
    /\ scanLogsSheet = <<>>
    /\ jatraCompletionsSheet = <<>>
    /\ logScanCalls = <<>>
    /\ appendFailures = 0

\* ------------------------------------------------------------------------
\* Server: server/_core/rate-limiter.ts
\* ------------------------------------------------------------------------
RateKeys == {"device:D1"}
\* the instants at which the limiter is called or cleaned
RateInstants == {0, 59 * 1000, 60 * 1000, 60 * 1000 + 1}

\* scanRateLimiter = new RateLimiter({ windowMs, maxRequests })
scanRateLimiterConfig_TwoMinutes == [windowMs |-> 2 * 60 * 1000, maxRequests |-> 60]
scanRateLimiterConfig_Max61 == [windowMs |-> 60 * 1000, maxRequests |-> 61]
scanRateLimiterConfig == [windowMs |-> 60 * 1000, maxRequests |-> 60]

\* entries.get(key) of a key the map does not hold
NoEntry == [count |-> 0, windowStart |-> -1]

\* RateLimiter.check at instant t for a key whose entry is `entry`: the entry
\* the map holds afterwards and the value returned
check(entry, t) ==
    LET config == scanRateLimiterConfig
    IN  IF entry = NoEntry \/ t - entry.windowStart > config.windowMs
        THEN [result |-> [allowed |-> TRUE,
                          remaining |-> config.maxRequests - 1,
                          resetIn |-> config.windowMs],
              entry |-> [count |-> 1, windowStart |-> t]]
        ELSE IF entry.count >= config.maxRequests
        THEN [result |-> [allowed |-> FALSE,
                          remaining |-> 0,
                          resetIn |-> config.windowMs - (t - entry.windowStart)],
              entry |-> entry]
        ELSE [result |-> [allowed |-> TRUE,
                          remaining |-> config.maxRequests - (entry.count + 1),
                          resetIn |-> config.windowMs - (t - entry.windowStart)],
              entry |-> [entry EXCEPT !.count = @ + 1]]

\* this.limits.get(key)
EntryOf(key) == IF key \in DOMAIN entries THEN entries[key] ELSE NoEntry

\* the calls of the key that check() allowed at instant t
AllowedAt(key, t) ==
    IF key \in DOMAIN allowedAt /\ t \in DOMAIN allowedAt[key]
    THEN allowedAt[key][t] ELSE 0

\* a request of the key reaches scanRateLimiter.check
Check(key) ==
    LET r == check(EntryOf(key), now)
    IN  /\ entries' = [k \in DOMAIN entries \cup {key} |->
                          IF k = key THEN r.entry ELSE entries[k]]
        /\ lastCheck' = [k \in DOMAIN lastCheck \cup {key} |->
                            IF k = key
                            THEN [allowed |-> r.result.allowed,
                                  remaining |-> r.result.remaining,
                                  resetIn |-> r.result.resetIn,
                                  at |-> now]
                            ELSE lastCheck[k]]
        /\ allowedAt' = IF r.result.allowed
                        THEN [k \in DOMAIN allowedAt \cup {key} |->
                                IF k = key
                                THEN [i \in {j \in RateInstants : AllowedAt(key, j) > 0}
                                              \cup {now} |->
                                        IF i = now THEN AllowedAt(key, i) + 1
                                        ELSE AllowedAt(key, i)]
                                ELSE allowedAt[k]]
                        ELSE allowedAt
        /\ UNCHANGED <<syncVars, dashboardVars, loggerVars, storeVars,
                       scannerVars, deviceIdVars>>

\* the setInterval callback of startCleanup deletes the entries whose window
\* has passed
Cleanup ==
    /\ \E key \in DOMAIN entries :
          now - entries[key].windowStart > scanRateLimiterConfig.windowMs
    /\ entries' = [key \in {k \in DOMAIN entries :
                                ~(now - entries[k].windowStart
                                     > scanRateLimiterConfig.windowMs)} |->
                      entries[key]]
    /\ UNCHANGED <<lastCheck, allowedAt, syncVars, dashboardVars, loggerVars,
                   storeVars, scannerVars, deviceIdVars>>

\* Date.now() of the server moves on
RateClock(t) ==
    /\ t > now
    /\ now' = t
    /\ UNCHANGED <<scanLogsTable, gateLog, pendingScans, cachedScanLogs, isOnline,
                   lastSyncAt, request, pull, nextUuid, scanBudget, failBudget,
                   lastResult, suppressed, resolved, capturedOffline, tickBudget,
                   otherVars>>

\* ------------------------------------------------------------------------
\* Scanner screen: the isProcessing guard of the scan handlers
\* (app/(tabs)/index.tsx)
\* ------------------------------------------------------------------------
\* calls of the scan handlers; invocations lists them in call order
MaxInvocations == 2
Invocations == 1..MaxInvocations
ScanHandlers == {"handleBarCodeScanned", "handleGalleryScan", "handleManualBadgeEntry"}
\* the handlers that arm the 3-second timeout
TimedHandlers == {"handleBarCodeScanned", "handleManualBadgeEntry"}
\* how the awaited addScan settles
AddScanOutcomes == {"duplicate", "success", "throws"}

\* a finally block that clears the timeout and leaves isProcessing as it is
Finally_ClearOnly(timer, processing) ==
    [isProcessing |-> processing,
     timer |-> IF timer = "armed" THEN "cleared" ELSE timer]

\* finally { clearTimeout(timeoutId); setIsProcessing(false); }
Finally(timer, processing) ==
    [isProcessing |-> FALSE,
     timer |-> IF timer = "armed" THEN "cleared" ELSE timer]

\* the scanner screen after its first render
ScannerMounted ==
    /\ isProcessing = FALSE
    /\ renderedIsProcessing = FALSE
    /\ invocations = <<>>

\* a scan handler is called and runs up to its first await: the guard reads
\* the isProcessing of the render that created the callback; valid says the
\* badge number parses (manual entry), found that the participant exists
Invoke(handler, valid, found) ==
    /\ Len(invocations) < MaxInvocations
    /\ IF renderedIsProcessing
       THEN /\ invocations' = Append(invocations,
                   [stage |-> "returned", outcome |-> "guarded", timer |-> "none",
                    handler |-> handler])
            /\ UNCHANGED isProcessing
       ELSE IF handler = "handleManualBadgeEntry" /\ ~valid
       THEN /\ invocations' = Append(invocations,
                   [stage |-> "returned", outcome |-> "invalidBadge", timer |-> "none",
                    handler |-> handler])
            /\ UNCHANGED isProcessing
       ELSE IF handler = "handleGalleryScan"
       THEN /\ invocations' = Append(invocations,
                   [stage |-> "picking", outcome |-> "none", timer |-> "none",
                    handler |-> handler])
            /\ isProcessing' = TRUE
       ELSE IF ~found
       THEN LET f == Finally("armed", TRUE)
            IN  /\ invocations' = Append(invocations,
                       [stage |-> "done", outcome |-> "notFound", timer |-> f.timer,
                        handler |-> handler])
                /\ isProcessing' = f.isProcessing
       ELSE /\ invocations' = Append(invocations,
                   [stage |-> "awaiting", outcome |-> "none", timer |-> "armed",
                    handler |-> handler])
            /\ isProcessing' = TRUE
    /\ UNCHANGED <<renderedIsProcessing, syncVars, dashboardVars, loggerVars,
                   storeVars, limiterVars, deviceIdVars>>

\* handleGalleryScan: scanFromGallery settles; picked says it returned a QR
\* code, found that the participant exists
GalleryPicked(i, picked, found) ==
    /\ i \in DOMAIN invocations
    /\ invocations[i].stage = "picking"
    /\ IF picked /\ found
       THEN /\ invocations' = [invocations EXCEPT ![i].stage = "awaiting"]
            /\ UNCHANGED isProcessing
       ELSE /\ invocations' = [invocations EXCEPT ![i].stage = "done",
                                  ![i].outcome = IF picked THEN "notFound"
                                                 ELSE "notPicked"]
            /\ isProcessing' = FALSE
    /\ UNCHANGED <<renderedIsProcessing, syncVars, dashboardVars, loggerVars,
                   storeVars, limiterVars, deviceIdVars>>

\* the awaited addScan settles and the handler runs to its end
AddScanSettles(i, outcome) ==
    /\ i \in DOMAIN invocations
    /\ invocations[i].stage = "awaiting"
    /\ LET f == IF invocations[i].handler \in TimedHandlers
                THEN Finally(invocations[i].timer, isProcessing)
                ELSE [isProcessing |-> FALSE, timer |-> invocations[i].timer]
       IN  /\ invocations' = [invocations EXCEPT ![i].stage = "done",
                                 ![i].timer = f.timer,
                                 ![i].outcome = outcome]
           /\ isProcessing' = f.isProcessing
    /\ UNCHANGED <<renderedIsProcessing, syncVars, dashboardVars, loggerVars,
                   storeVars, limiterVars, deviceIdVars>>

\* the setTimeout callback of an invocation runs, 3000 ms after the handler
\* armed it and before the handler cleared it
TimeoutFires(i) ==
    /\ i \in DOMAIN invocations
    /\ invocations[i].timer = "armed"
    /\ invocations' = [invocations EXCEPT ![i].timer = "fired"]
    /\ isProcessing' = FALSE
    /\ UNCHANGED <<renderedIsProcessing, syncVars, dashboardVars, loggerVars,
                   storeVars, limiterVars, deviceIdVars>>

\* the screen renders again and useCallback recreates the handlers with the
\* current isProcessing
RenderScanner ==
    /\ renderedIsProcessing # isProcessing
    /\ renderedIsProcessing' = isProcessing
    /\ UNCHANGED <<isProcessing, invocations, syncVars, dashboardVars, loggerVars,
                   storeVars, limiterVars, deviceIdVars>>

\* ------------------------------------------------------------------------
\* Device id of the tRPC client (lib/trpc.ts)
\* ------------------------------------------------------------------------
\* calls of getDeviceId; getDeviceIdCalls lists them in call order
MaxDeviceIdCalls == 3
DeviceIdCalls == 1..MaxDeviceIdCalls
\* null
NoDeviceId == 0
\* `device-${crypto.randomUUID()}`: a fresh value in every call
randomUUID(i) == i
\* `device-${Date.now()}` at the instants a call can fail
ClockDeviceIds == {1000, 1001}

\* the module after loading, on a fresh installation
DeviceIdModuleLoaded ==
    /\ cachedDeviceId = NoDeviceId
    /\ storedDeviceId = NoDeviceId
    /\ getDeviceIdCalls = <<>>

\* getDeviceId is called and runs up to its first await
GetDeviceId ==
    /\ Len(getDeviceIdCalls) < MaxDeviceIdCalls
    /\ getDeviceIdCalls' = Append(getDeviceIdCalls,
          IF cachedDeviceId # NoDeviceId
          THEN [deviceId |-> NoDeviceId, stage |-> "returned",
                returned |-> cachedDeviceId]
          ELSE [deviceId |-> NoDeviceId, stage |-> "getItem",
                returned |-> NoDeviceId])
    /\ UNCHANGED <<cachedDeviceId, storedDeviceId, syncVars, dashboardVars,
                   loggerVars, storeVars, limiterVars, scannerVars>>

\* AsyncStorage.getItem settles; clock is Date.now() if it throws
GetItemSettles(i, ok, clock) ==
    /\ i \in DOMAIN getDeviceIdCalls
    /\ getDeviceIdCalls[i].stage = "getItem"
    /\ IF ~ok
       THEN /\ getDeviceIdCalls' = [getDeviceIdCalls EXCEPT ![i].stage = "returned",
                                       ![i].returned = clock]
            /\ UNCHANGED cachedDeviceId
       ELSE IF storedDeviceId = NoDeviceId
       THEN /\ getDeviceIdCalls' = [getDeviceIdCalls EXCEPT ![i].stage = "setItem",
                                       ![i].deviceId = randomUUID(i)]
            /\ UNCHANGED cachedDeviceId
       ELSE /\ getDeviceIdCalls' = [getDeviceIdCalls EXCEPT ![i].stage = "returned",
                                       ![i].deviceId = storedDeviceId,
                                       ![i].returned = storedDeviceId]
            /\ cachedDeviceId' = storedDeviceId
    /\ UNCHANGED <<storedDeviceId, syncVars, dashboardVars, loggerVars, storeVars,
                   limiterVars, scannerVars>>

\* AsyncStorage.setItem settles; clock is Date.now() if it throws
SetItemSettles(i, ok, clock) ==
    /\ i \in DOMAIN getDeviceIdCalls
    /\ getDeviceIdCalls[i].stage = "setItem"
    /\ IF ok
       THEN /\ storedDeviceId' = getDeviceIdCalls[i].deviceId
            /\ cachedDeviceId' = getDeviceIdCalls[i].deviceId
            /\ getDeviceIdCalls' = [getDeviceIdCalls EXCEPT ![i].stage = "returned",
                                       ![i].returned = getDeviceIdCalls[i].deviceId]
       ELSE /\ getDeviceIdCalls' = [getDeviceIdCalls EXCEPT ![i].stage = "returned",
                                       ![i].returned = clock]
            /\ UNCHANGED <<cachedDeviceId, storedDeviceId>>
    /\ UNCHANGED <<syncVars, dashboardVars, loggerVars, storeVars, limiterVars,
                   scannerVars>>

\* the limiter after construction
RateLimiterConstructed ==
    /\ entries = <<>>
    /\ lastCheck = <<>>
    /\ allowedAt = <<>>

InitCore ==
    /\ RateLimiterConstructed
    /\ ScannerMounted
    /\ DeviceIdModuleLoaded
    /\ now = 0
    /\ scanLogsTable = <<>>
    /\ gateLog = {}
    /\ pendingScans = [d \in Devices |-> <<>>]
    /\ cachedScanLogs = [d \in Devices |-> {}]
    /\ isOnline = [d \in Devices |-> TRUE]
    /\ lastSyncAt = [d \in Devices |-> 0]
    /\ request = [d \in Devices |-> NoRequest]
    /\ pull = [d \in Devices |-> NoPull]
    /\ nextUuid = 1
    /\ lastResult = NoResult
    /\ suppressed = {}
    /\ resolved = {}
    /\ capturedOffline = {}
    /\ scanLogs = <<>>
    /\ jatraStats = AllJatraStats(<<>>)
    /\ missingPilgrims = <<>>

InitCommon ==
    /\ InitCore
    /\ LoggerConstructed(TRUE)
    /\ purgedBy = <<>>
    /\ queryLog = <<>>
    /\ inputLog = <<>>

Init ==
    /\ InitCommon
    /\ scanBudget = MaxScans
    /\ failBudget = MaxFailures
    /\ tickBudget = MaxTicks

\* one capture, and enough failures to exhaust its retries
InitRetry ==
    /\ InitCommon
    /\ scanBudget = 1
    /\ failBudget = RetryRunFailures
    /\ tickBudget = MaxTicks

\* the capture path, the push loop and the server's two mutations
NextPush ==
    \/ \E d \in Devices, p \in Participants, c \in ScanCheckpoints : AddScan(d, p, c)
    \/ \E d \in Devices : PushStart(d)
    \/ \E d \in Devices : ScanLogsCreate(d)
    \/ \E d \in Devices : PushChangesStep(d)
    \/ \E d \in Devices : StorageError(d)
    \/ \E d \in Devices : ReceiveResponse(d)
    \/ \E d \in Devices : FetchTimeout(d)
    \/ \E d \in Devices : GoOffline(d)
    \/ \E d \in Devices : GoOnline(d)
    \/ Tick

\* the pull loop
NextPull ==
    \/ \E d \in Devices : IncrementalSyncQuery(d)
    \/ \E d \in Devices : IncrementalSyncReply(d)
    \/ \E d \in Devices : PullTimeout(d)

Next == NextPush \/ NextPull

\* Devices that have not pulled yet: every behaviour of Spec is a behaviour of
\* SpecSync's next-state relation, and the pull loop writes only
\* cachedScanLogs and lastSyncAt, which the push side reads only in
\* isDuplicateScan.
Spec == Init /\ [][NextPush]_vars

SpecRetry == InitRetry /\ [][NextPush]_vars

\* three captures and two ticks, so that a capture can follow a pending one of the same pair
InitDup ==
    /\ InitCommon
    /\ scanBudget = DupRunScans
    /\ failBudget = MaxFailures
    /\ tickBudget = DupRunTicks

SpecDup == InitDup /\ [][NextPush]_vars

\* two captures and three ticks, so that a device can come back online with a
\* scan more than the window older than one already stored
LateRunScans == 2
LateRunTicks == 3

InitLate ==
    /\ InitCommon
    /\ scanBudget = LateRunScans
    /\ failBudget = MaxFailures
    /\ tickBudget = LateRunTicks

SpecLate == InitLate /\ [][NextPush]_vars

InitSync ==
    /\ InitCommon
    /\ scanBudget = SyncRunScans
    /\ failBudget = MaxFailures
    /\ tickBudget = MaxTicks

SpecSync == InitSync /\ [][Next]_vars

\* the dashboard alone
InitJatra ==
    /\ InitCommon
    /\ scanBudget = MaxLogs
    /\ failBudget = 0
    /\ tickBudget = 0

NextJatra ==
    \/ \E i \in 1..Len(JatraParticipants), c \in JatraCheckpoints,
          tm \in JatraTimes :
            ReceiveScanLog(ScanLog(JatraParticipants[i], c, tm))
    \/ \E tm \in JatraClock : Refresh(tm)

SpecJatra == InitJatra /\ [][NextJatra]_vars

\* the alert list alone, with last scans seconds apart
AlertTimes == {0, 20 * 1000, 40 * 1000, 2 * 60 * 1000}
AlertClock == {301 * 60 * 1000, 302 * 60 * 1000}

NextAlert ==
    \/ \E i \in 1..Len(JatraParticipants), c \in JatraCheckpoints,
          tm \in AlertTimes :
            ReceiveScanLog(ScanLog(JatraParticipants[i], c, tm))
    \/ \E tm \in AlertClock : Refresh(tm)

SpecAlert == InitJatra /\ [][NextAlert]_vars

\* the Google Sheets logger alone
InitLogger ==
    /\ InitCore
    /\ \E configured \in BOOLEAN : LoggerConstructed(configured)
    /\ purgedBy = <<>>
    /\ queryLog = <<>>
    /\ inputLog = <<>>
    /\ scanBudget = LoggerRunScans
    /\ failBudget = MaxAppendFailures
    /\ tickBudget = 0

NextLogger ==
    \/ \E p \in LoggerParticipants, c \in LoggerCheckpoints,
          tm \in LoggerTimes, d \in LoggerDays, appendOk, completionOk \in BOOLEAN :
            LogScan(ScanLogData(p, c, tm, d), appendOk, completionOk)
    \/ \E n \in 1..LoggerRunScans : \E outcomes \in [1..n -> BOOLEAN] :
            RetryProcessor(outcomes)

SpecLogger == InitLogger /\ [][NextLogger]_vars

\* the gate alone, driven through scanLogs.create
InitGate ==
    /\ InitCommon
    /\ scanBudget = GateRunScans
    /\ failBudget = 0
    /\ tickBudget = 0

NextGate ==
    \E d \in GateDevices, p \in GateParticipants, c \in GateCheckpoints,
       tm \in GateTimes, u \in 1..GateRunScans + 1 :
        DirectCreate(Scan(u, p, c, d, tm))

SpecGate == InitGate /\ [][NextGate]_vars

\* the gate on one pair, with scans 6, 10 and 12 minutes after the first
WindowRunScans == 3
WindowTimes == {0, 6 * 60 * 1000, 10 * 60 * 1000, 12 * 60 * 1000}

InitWindow ==
    /\ InitCommon
    /\ scanBudget = WindowRunScans
    /\ failBudget = 0
    /\ tickBudget = 0

NextWindow ==
    \E d \in GateDevices, p \in Participants, c \in ScanCheckpoints,
       tm \in WindowTimes, u \in 1..WindowRunScans + 1 :
        DirectCreate(Scan(u, p, c, d, tm))

SpecWindow == InitWindow /\ [][NextWindow]_vars

\* the pull loop against a server that other clients write to
PullRunScans == 2
PullRunTicks == 2
PullTimes == {0, 5 * 60 * 1000}
\* the device that pulls; the scans come from the gate device
PullDevices == {"D2"}

InitPull ==
    /\ InitCommon
    /\ scanBudget = PullRunScans
    /\ failBudget = 0
    /\ tickBudget = PullRunTicks

NextPullLoop ==
    \/ \E d \in GateDevices, p \in GateParticipants, c \in ScanCheckpoints,
          tm \in PullTimes, u \in 1..PullRunScans + 1 :
            DirectCreate(Scan(u, p, c, d, tm))
    \/ \E d \in PullDevices : IncrementalSyncQuery(d)
    \/ \E d \in PullDevices : IncrementalSyncReply(d)
    \/ \E d \in PullDevices : PullTimeout(d)
    \/ \E d \in PullDevices : GoOffline(d)
    \/ \E d \in PullDevices : GoOnline(d)
    \/ Tick

SpecPull == InitPull /\ [][NextPullLoop]_vars

\* an outage of the sheet: every append fails until the outage is over, then
\* the retry processor runs with appends that succeed
OutageRunScans == 1001

InitOutage ==
    /\ InitCommon
    /\ scanBudget = OutageRunScans
    /\ failBudget = OutageRunScans
    /\ tickBudget = 0

\* the scans of the outage are one second apart, at checkpoint 3
OutageScan == ScanLogData("P1", 3, Len(logScanCalls) * 1000, 1)

NextOutage ==
    \/ LogScan(OutageScan, FALSE, FALSE)
    \/ /\ appendFailures = failBudget
       /\ RetryProcessor([i \in 1..Len(failedScans) |-> TRUE])

SpecOutage == InitOutage /\ [][NextOutage]_vars

\* the scan rate limiter alone
InitLimiter ==
    /\ InitCommon
    /\ scanBudget = 0
    /\ failBudget = 0
    /\ tickBudget = 0

NextLimiter ==
    \/ \E key \in RateKeys : Check(key)
    \/ Cleanup
    \/ \E t \in RateInstants : RateClock(t)

SpecLimiter == InitLimiter /\ [][NextLimiter]_vars

\* the scanner screen alone
InitScanner ==
    /\ InitCommon
    /\ scanBudget = 0
    /\ failBudget = 0
    /\ tickBudget = 0

NextScanner ==
    \/ \E handler \in ScanHandlers, valid, found \in BOOLEAN :
          Invoke(handler, valid, found)
    \/ \E i \in Invocations, picked, found \in BOOLEAN : GalleryPicked(i, picked, found)
    \/ \E i \in Invocations, outcome \in AddScanOutcomes : AddScanSettles(i, outcome)
    \/ \E i \in Invocations : TimeoutFires(i)
    \/ RenderScanner

SpecScanner == InitScanner /\ [][NextScanner]_vars

\* the same with the timers running: an armed timeout fires unless the
\* handler's finally block clears it first
SpecScannerLive ==
    /\ InitScanner
    /\ [][NextScanner]_vars
    /\ \A i \in Invocations :
          WF_vars(TimeoutFires(i) \/ \E outcome \in AddScanOutcomes : AddScanSettles(i, outcome))

\* getDeviceId alone
InitDeviceId ==
    /\ InitCommon
    /\ scanBudget = 0
    /\ failBudget = 0
    /\ tickBudget = 0

NextDeviceId ==
    \/ GetDeviceId
    \/ \E i \in DeviceIdCalls, ok \in BOOLEAN, clock \in ClockDeviceIds :
          GetItemSettles(i, ok, clock)
    \/ \E i \in DeviceIdCalls, ok \in BOOLEAN, clock \in ClockDeviceIds :
          SetItemSettles(i, ok, clock)

SpecDeviceId == InitDeviceId /\ [][NextDeviceId]_vars

\* the scan log mutations called with raw input
InitInput ==
    /\ InitCommon
    /\ scanBudget = 0
    /\ failBudget = 0
    /\ tickBudget = 0

NextInput ==
    \/ \E input \in RawInputs : ScanLogsCreateInput(input)
    \/ \E first, second \in RawInputs : PushChangesInput(<<first, second>>)

SpecInput == InitInput /\ [][NextInput]_vars

\* the scan log API alone: create and the three queries
InitStore ==
    /\ InitCommon
    /\ scanBudget = StoreRunScans
    /\ failBudget = 0
    /\ tickBudget = 0

NextStore ==
    \/ \E d \in GateDevices, p \in GateParticipants, c \in GateCheckpoints,
          tm \in StoreTimes, u \in 1..StoreRunScans + 1 :
            DirectCreate(Scan(u, p, c, d, tm))
    \/ ScanLogsList
    \/ \E p \in GateParticipants : ScanLogsGetByParticipant(p)
    \/ \E c \in GateCheckpoints : ScanLogsGetByCheckpoint(c)

SpecStore == InitStore /\ [][NextStore]_vars

\* the scan log API with scanLogs.clearAll
NextPurge ==
    \/ NextStore
    \/ \E role \in CallerRoles : ScanLogsClearAll(role)

SpecPurge == InitStore /\ [][NextPurge]_vars

\* ------------------------------------------------------------------------
\* Properties
\* ------------------------------------------------------------------------
RowsWithUuid(u) == {i \in 1..Len(scanLogsTable) : scanLogsTable[i].uuid = u}

DecisionsOf(u) == {e \in gateLog : e.scan.uuid = u}

SamePair(a, b) ==
    a.participantUuid = b.participantUuid /\ a.checkpointId = b.checkpointId

\* C1: an event id the gate has stored is stored exactly once however often it
\* is submitted, and every submission of it is answered accepted (success).
C1_IdempotentReplay ==
    \A u \in {e.scan.uuid : e \in gateLog} :
        (\E e \in DecisionsOf(u) : e.inserted) =>
            /\ \A e \in DecisionsOf(u) : e.result.success
            /\ Cardinality(RowsWithUuid(u)) = 1

\* the same id was decided twice: stored by the first submission, replayed by
\* a retry after the first reply was lost
C1_Witness ==
    \E e1, e2 \in gateLog :
        /\ e1.scan.uuid = e2.scan.uuid
        /\ e1.inserted
        /\ ~e2.inserted
        /\ e2.result.success

\* C2: a submission with another id for the same pair whose occurredAt is less
\* than 10 minutes after a stored event is answered accepted with
\* duplicate = true and is not stored, whatever device sent it; every stored
\* event was answered duplicate = false.
C2_WindowDuplicate ==
    /\ \A e \in gateLog : \A i \in 1..Len(scanLogsTable) :
          LET r == scanLogsTable[i]
          IN  ( /\ r.uuid # e.scan.uuid
                /\ SamePair(r, e.scan)
                /\ e.scan.scannedAt - r.scannedAt >= 0
                /\ e.scan.scannedAt - r.scannedAt < 10 * 60 * 1000 )
              => /\ e.result.success
                 /\ e.result.duplicate
                 /\ ~e.inserted
                 /\ RowsWithUuid(e.scan.uuid) = {}
    /\ \A i \in 1..Len(scanLogsTable) :
          \E e \in DecisionsOf(scanLogsTable[i].uuid) :
              e.inserted /\ e.result.success /\ ~e.result.duplicate

\* a second device's scan of the pair, inside the window, was rejected
C2_Witness ==
    \E e \in gateLog : \E i \in 1..Len(scanLogsTable) :
        /\ scanLogsTable[i].uuid # e.scan.uuid
        /\ SamePair(scanLogsTable[i], e.scan)
        /\ scanLogsTable[i].deviceId # e.scan.deviceId
        /\ e.scan.scannedAt - scanLogsTable[i].scannedAt >= 0
        /\ e.scan.scannedAt - scanLogsTable[i].scannedAt < 10 * 60 * 1000
        /\ e.result.duplicate

AbsDiff(a, b) == IF a >= b THEN a - b ELSE b - a

C4_NoScanLost ==
    [][\A d \in Devices :
          \A u \in Uuids(pendingScans[d]) \ Uuids(pendingScans'[d]) :
              /\ \E e \in gateLog : e.scan.uuid = u /\ e.result.success
              /\ request[d].stage = "replied"
              /\ ~request[d].error
              /\ u \in Uuids(request[d].scans)]_vars

\* one scan has left the outbox while another, whose attempt failed, is still
\* in it
C4_Witness ==
    /\ resolved # {}
    /\ \E d \in Devices : \E i \in 1..Len(pendingScans[d]) :
          /\ pendingScans[d][i].retryCount >= 1
          /\ pendingScans[d][i].uuid \notin resolved

\* C5: on an offline device, addScan of a scan that is not a local duplicate
\* returns success in the same step, without any request being sent or served,
\* and the scan is in the device's local view at once.
C5_OfflineCapture ==
    [][\A d \in Devices, p \in Participants, c \in ScanCheckpoints :
          (AddScan(d, p, c) /\ ~isOnline[d] /\ ~isDuplicateScan(d, p, c))
          => /\ lastResult'.device = d
             /\ lastResult'.success
             /\ ~lastResult'.duplicate
             /\ Scan(nextUuid, p, c, d, now) \in LocalView(d)'
             /\ request' = request
             /\ scanLogsTable' = scanLogsTable]_vars

\* addScan has just returned success on an offline device; nothing was sent
C5_Witness ==
    \E d \in Devices :
        /\ ~isOnline[d]
        /\ lastResult = [device |-> d, success |-> TRUE, duplicate |-> FALSE]
        /\ \E i \in 1..Len(pendingScans[d]) :
              pendingScans[d][i].uuid \in capturedOffline
        /\ scanLogsTable = <<>>
        /\ \A e \in Devices : request[e].stage = "idle"

\* the next incrementalSync of device d would bring nothing it does not have
PullComplete(d) ==
    getScanLogsUpdatedSince(scanLogsTable, lastSyncAt[d]) \subseteq cachedScanLogs[d]

\* the network is up and neither loop of any device has anything left to do
Quiescent ==
    \A d \in Devices :
        /\ isOnline[d]
        /\ request[d].stage = "idle"
        /\ pull[d].stage = "idle"
        /\ Batch(d) = <<>>
        /\ PullComplete(d)

\* C6: once the network is restored and the push and pull loops have run until
\* nothing is left to do, every scan captured offline has left its outbox with
\* a decision of the gate, and if it was stored every other device sees it.
C6_OfflineScanDelivered ==
    Quiescent =>
        \A u \in capturedOffline :
            /\ \A d \in Devices : u \notin Uuids(pendingScans[d])
            /\ DecisionsOf(u) # {}
            /\ \A i \in RowsWithUuid(u) :
                  \A d \in Devices \ {scanLogsTable[i].deviceId} :
                      ToScan(scanLogsTable[i]) \in LocalView(d)

\* C7: once a device's outbox is drained, every capture its local duplicate
\* check dropped is one the gate rejects as well: the local decision agrees
\* with the gate's.
C7_GateDecides ==
    \A x \in suppressed :
        (pendingScans[x.deviceId] = <<>> /\ request[x.deviceId].stage = "idle")
        => createScanLog(scanLogsTable, x, now).result.duplicate

\* C8: a reply without error removes every scan of the batch from the outbox,
\* whether the gate accepted it or rejected it as a duplicate, and a removed
\* scan is never queued or sent again; a retry count grows only on a storage
\* error or a transport failure.
C8_TerminalResults ==
    [][\A d \in Devices :
          /\ (ReceiveResponse(d) /\ ~request[d].error) =>
                \A u \in Uuids(request[d].scans) :
                    u \notin Uuids(pendingScans'[d]) /\ u \in resolved'
          /\ \A i \in 1..Len(pendingScans[d]) :
                ( /\ i <= Len(pendingScans'[d])
                  /\ pendingScans'[d][i].uuid = pendingScans[d][i].uuid
                  /\ pendingScans'[d][i].retryCount > pendingScans[d][i].retryCount )
                => (request[d].error \/ failBudget' < failBudget)
          /\ \A u \in resolved :
                u \notin Uuids(pendingScans'[d]) /\ u \notin Uuids(request'[d].scans)]_vars

\* one scan left the outbox accepted and another left it rejected as duplicate
C8_Witness ==
    \E u1, u2 \in resolved :
        /\ \E e \in DecisionsOf(u1) : e.inserted
        /\ \E e \in DecisionsOf(u2) : e.result.duplicate

\* C9: a request that times out leaves each of its scans in the outbox, not
\* resolved, with its retry count raised by one and still eligible for the
\* next push unless that count reached the maximum.
C9_TimeoutRetries ==
    [][\A d \in Devices :
          FetchTimeout(d) =>
              /\ Len(pendingScans'[d]) = Len(pendingScans[d])
              /\ \A i \in 1..Len(pendingScans[d]) :
                    pendingScans[d][i].uuid \in Uuids(request[d].scans) =>
                        /\ pendingScans'[d][i].uuid = pendingScans[d][i].uuid
                        /\ pendingScans'[d][i].retryCount =
                              pendingScans[d][i].retryCount + 1
                        /\ pendingScans'[d][i].lastError = "AbortError"
                        /\ pendingScans'[d][i].uuid \notin resolved'
                        /\ (pendingScans'[d][i].needsAttention =>
                              pendingScans'[d][i].retryCount >= 10)]_vars

\* a scan whose last attempt timed out is in flight again
C9_Witness ==
    \E d \in Devices :
        /\ request[d].stage = "sent"
        /\ \E i \in 1..Len(pendingScans[d]) :
              /\ pendingScans[d][i].lastError = "AbortError"
              /\ pendingScans[d][i].uuid \in Uuids(request[d].scans)

\* C10: a pending scan whose retry count is 10 or more is marked for
\* attention; a marked scan stays in the outbox, marked; and no scan leaves
\* the outbox other than by a terminal reply.
C10_MaxRetriesKept ==
    [][\A d \in Devices :
          /\ \A i \in 1..Len(pendingScans'[d]) :
                pendingScans'[d][i].retryCount >= 10 =>
                    pendingScans'[d][i].needsAttention
          /\ \A i \in 1..Len(pendingScans[d]) :
                /\ pendingScans[d][i].needsAttention =>
                      \E j \in 1..Len(pendingScans'[d]) :
                          /\ pendingScans'[d][j].uuid = pendingScans[d][i].uuid
                          /\ pendingScans'[d][j].needsAttention
                /\ \/ pendingScans[d][i].uuid \in Uuids(pendingScans'[d])
                   \/ pendingScans[d][i].uuid \in resolved']_vars

\* a scan failed ten times, is marked, and is still in the outbox
C10_Witness ==
    \E d \in Devices : \E i \in 1..Len(pendingScans[d]) :
        /\ pendingScans[d][i].retryCount = 10
        /\ pendingScans[d][i].needsAttention

C12_KeyedPerPair ==
    \A e \in gateLog :
        e.result.duplicate =>
            \E i \in 1..Len(scanLogsTable) :
                /\ scanLogsTable[i].uuid # e.scan.uuid
                /\ scanLogsTable[i].participantUuid = e.scan.participantUuid
                /\ scanLogsTable[i].checkpointId = e.scan.checkpointId

\* a subject stored at one checkpoint is stored at another for the same
\* instant
C12_Witness ==
    \E i, j \in 1..Len(scanLogsTable) :
        /\ i < j
        /\ scanLogsTable[i].participantUuid = scanLogsTable[j].participantUuid
        /\ scanLogsTable[i].checkpointId # scanLogsTable[j].checkpointId
        /\ scanLogsTable[i].scannedAt = scanLogsTable[j].scannedAt
        /\ \A e \in DecisionsOf(scanLogsTable[j].uuid) : ~e.result.duplicate

\* C13: a duplicate-rejected submission is answered with a value: the reply
\* carries success = true and duplicate = true, the request resolves without
\* error, and the device settles it without counting a failure.
C13_DuplicateIsAValue ==
    /\ \A e \in gateLog : e.result.duplicate => e.result.success
    /\ \A d \in Devices :
          (request[d].stage = "replied" /\ ~request[d].error)
          => fetchWithTimeout(FALSE, request[d]) = [error |-> "none", ok |-> TRUE]

\* the reply to a rejected duplicate is waiting to be read
C13_Witness ==
    \E d \in Devices :
        /\ request[d].stage = "replied"
        /\ ~request[d].error
        /\ request[d].kind = "create"
        /\ request[d].results[1].duplicate

LogsOf(i) == ParticipantLogs(JatraParticipants[i], scanLogs)

Listed(i) ==
    \E k \in 1..Len(missingPilgrims) :
        missingPilgrims[k].participant = JatraParticipants[i]

C15_LapNeedsPendingStart ==
    \A i \in 1..Len(JatraParticipants) :
        jatraStats[i].totalJatras = PairsFrom(LogsOf(i), FALSE).jatraCount

\* C16: a participant is descending iff the latest Aamli scan has no later
\* Gheti scan, i.e. iff the pending pointer is set after the last log.
C16_DescendingIffPending ==
    \A i \in 1..Len(JatraParticipants) :
        jatraStats[i].isCurrentlyDescending = PairsFrom(LogsOf(i), FALSE).lastAamli

\* C17: a participant is reported "Not started" iff they have no scan log at
\* any checkpoint.
C17_NotStartedIffNoEvents ==
    \A i \in 1..Len(JatraParticipants) :
        (getJatraStatusText(jatraStats[i]) = "Not started") = (LogsOf(i) = <<>>)

\* the warnings the logger's validation finds for the scan of a call, in the
\* state the call was made in
Flags(scanData) == ValidationFindings(scanData).warnings

HasCall(warning, success) ==
    \E i \in 1..Len(logScanCalls) :
        /\ warning \in logScanCalls[i].result.validation.warnings
        /\ logScanCalls[i].result.validation.errors = {}
        /\ logScanCalls[i].result.success = success

\* C18: a scan that draws no validation error is logged the same way whether
\* or not it is flagged as a fast lap, a slow lap or a completion without
\* start: if the append succeeds the call reports success, the row is added
\* to the ScanLogs sheet and the scan is tracked; if the append fails the
\* scan is queued for retry. A flag alone never makes the call fail.
C18_AdvisoryOnly ==
    [][Len(logScanCalls') > Len(logScanCalls) =>
          LET call == logScanCalls'[Len(logScanCalls')]
              scanData == call.scanData
              p == scanData.participantUuid
          IN  (sheetsConfigured /\ ValidationFindings(scanData).errors = {})
              => /\ call.result.validation.warnings = Flags(scanData)
                 /\ \/ /\ call.result.success
                       /\ scanLogsSheet' =
                             Append(scanLogsSheet, ScanLogsRow(scanData))
                       /\ recentScans'[p] =
                             Append(recentScans[p], TrackedScan(scanData))
                       /\ failedScans' = failedScans
                    \/ /\ ~call.result.success
                       /\ failedScans' = Append(failedScans, scanData)
                       /\ scanLogsSheet' = scanLogsSheet
                       /\ recentScans' = recentScans]_vars

\* a fast lap, a slow lap and a completion without start were each flagged
\* and written to the sheet
C18_Witness ==
    /\ HasCall("Unusually fast Jatra", TRUE)
    /\ HasCall("Unusually slow Jatra", TRUE)
    /\ HasCall("Gheti scan without prior Aamli scan", TRUE)
    /\ Len(scanLogsSheet) = Len(logScanCalls)


\* C19: a descending participant whose last scan is 5h01m or more in the past
\* is in the alert list, and one whose last scan is 4h59m or less in the past
\* is not; descending by the stats' flag or by the pending pointer.
C19_AtRisk ==
    \A i \in 1..Len(JatraParticipants) :
        ( /\ LogsOf(i) # <<>>
          /\ \/ jatraStats[i].isCurrentlyDescending
             \/ PairsFrom(LogsOf(i), FALSE).lastAamli )
        => /\ now - jatraStats[i].lastScanTime >= 301 * 60 * 1000 => Listed(i)
           /\ now - jatraStats[i].lastScanTime <= 299 * 60 * 1000 => ~Listed(i)

\* at 5h01m on the clock, one descending participant last scanned at 0:00 is
\* listed and another last scanned at 0:02 is not
C19_Witness ==
    /\ now = 301 * 60 * 1000
    /\ \E i, j \in 1..Len(JatraParticipants) :
          /\ jatraStats[i].isCurrentlyDescending
          /\ jatraStats[j].isCurrentlyDescending
          /\ jatraStats[i].lastScanTime = 0
          /\ jatraStats[j].lastScanTime = 2 * 60 * 1000
          /\ Listed(i)
          /\ ~Listed(j)

\* C20: no participant whose last scan is the final descent at checkpoint 3 is
\* in the alert list as inactive.
C20_FinishedNotFlagged ==
    \A k \in 1..Len(missingPilgrims) :
        missingPilgrims[k].alertType = "inactive" =>
            missingPilgrims[k].lastCheckpoint # "Front Side"

\* C21: the alert list is ranked most overdue first: of any two alerts, the
\* one whose last scan is older comes earlier in the list.
C21_MostOverdueFirst ==
    \A i, j \in 1..Len(missingPilgrims) :
        missingPilgrims[i].lastScanTime < missingPilgrims[j].lastScanTime
            => i < j

IsPrefix(s, u) == Len(s) <= Len(u) /\ SubSeq(u, 1, Len(s)) = s

\* C22: a stored scan log row is never changed, and rows leave the table
\* only when an administrator calls the purge: every step either keeps the
\* table as a prefix of the new table, or is a purge whose caller is an
\* administrator.
C22_AppendOnly ==
    [][\/ IsPrefix(scanLogsTable, scanLogsTable')
       \/ /\ Len(purgedBy') > Len(purgedBy)
          /\ purgedBy'[Len(purgedBy')] = "admin"]_vars

\* the query asks for rows this scan is one of
Matches(entry, s) ==
    \/ entry.kind = "list"
    \/ entry.kind = "getByParticipant" /\ entry.participantUuid = s.participantUuid
    \/ entry.kind = "getByCheckpoint" /\ entry.checkpointId = s.checkpointId

C24_WatermarkMonotonic ==
    [][\A d \in Devices : lastSyncAt'[d] >= lastSyncAt[d]]_vars

\* a device whose pulls moved its watermark to 10 minutes and brought it a
\* scan stamped 5 minutes and a scan stamped 0
C24_Witness ==
    \E d \in Devices :
        /\ lastSyncAt[d] = 2 * 5 * 60 * 1000
        /\ {s.scannedAt : s \in cachedScanLogs[d]} = {0, 5 * 60 * 1000}


\* C25: a candidate that scanLogSchema refuses (event id or pilgrim id that is
\* not a UUID, checkpoint id not positive, scannedAt absent or not a datetime)
\* is answered BAD_REQUEST before the store is called: the call stores no row,
\* the gate never decides on it, and no stored row carries a refused value.
Refused(input) ==
    \/ input.uuid = 0
    \/ input.participantUuid = "invalid-uuid"
    \/ input.checkpointId <= 0
    \/ input.scannedAt = -1

OtherPairRows(s) ==
    {i \in PairRows(scanLogsTable, s.participantUuid, s.checkpointId) :
        scanLogsTable[i].uuid # s.uuid}

\* C26: a rejected duplicate does not move the pair's last-accepted timestamp:
\* a scan at least 10 minutes after every stored event of its pair is accepted
\* and stored even when a scan of the pair less than 10 minutes before it was
\* rejected as a duplicate (t accepted, t+6 rejected, t+12 accepted).
C26_RejectionKeepsLastAccepted ==
    \A e \in gateLog :
        ( /\ OtherPairRows(e.scan) # {}
          /\ \A i \in OtherPairRows(e.scan) :
                e.scan.scannedAt - scanLogsTable[i].scannedAt >= 10 * 60 * 1000
          /\ \E r \in gateLog :
                /\ SamePair(r.scan, e.scan)
                /\ r.result.duplicate
                /\ RowsWithUuid(r.scan.uuid) = {}
                /\ e.scan.scannedAt - r.scan.scannedAt > 0
                /\ e.scan.scannedAt - r.scan.scannedAt < 10 * 60 * 1000 )
        => /\ e.result.success
           /\ ~e.result.duplicate
           /\ Cardinality(RowsWithUuid(e.scan.uuid)) = 1

\* scans of one pair at 0, 6 and 12 minutes: the first and the third are
\* stored, the second was rejected
C26_Witness ==
    /\ {scanLogsTable[i].scannedAt : i \in 1..Len(scanLogsTable)}
          = {0, 12 * 60 * 1000}
    /\ \E r \in gateLog :
          /\ r.scan.scannedAt = 6 * 60 * 1000
          /\ r.result.duplicate
          /\ RowsWithUuid(r.scan.uuid) = {}
    /\ \E e \in gateLog :
          /\ e.scan.scannedAt = 12 * 60 * 1000
          /\ e.inserted
          /\ ~e.result.duplicate

\* C27: the duplicate test is a strict less-than: a scan exactly 10 minutes
\* after the last accepted event of its pair is accepted and stored.
C27_ExactlyWindowAccepted ==
    \A e \in gateLog :
        ( /\ \E i \in OtherPairRows(e.scan) :
                e.scan.scannedAt - scanLogsTable[i].scannedAt = 10 * 60 * 1000
          /\ \A i \in OtherPairRows(e.scan) :
                e.scan.scannedAt - scanLogsTable[i].scannedAt >= 10 * 60 * 1000 )
        => /\ e.result.success
           /\ ~e.result.duplicate
           /\ Cardinality(RowsWithUuid(e.scan.uuid)) = 1

\* two events of one pair exactly 10 minutes apart are both stored
C27_Witness ==
    /\ Len(scanLogsTable) = 2
    /\ scanLogsTable[1].scannedAt = 0
    /\ scanLogsTable[2].scannedAt = 10 * 60 * 1000
    /\ \E e \in gateLog :
          /\ e.scan.uuid = scanLogsTable[2].uuid
          /\ e.inserted
          /\ ~e.result.duplicate


\* C28: a scan captured offline that is pushed after a later scan of its pair
\* was stored, its occurredAt more than 10 minutes earlier than every stored
\* event of the pair, is answered duplicate = false and is stored.
C28_LateOfflineScanAccepted ==
    \A e \in gateLog :
        ( /\ e.scan.uuid \in capturedOffline
          /\ OtherPairRows(e.scan) # {}
          /\ \A i \in OtherPairRows(e.scan) :
                scanLogsTable[i].scannedAt - e.scan.scannedAt > 10 * 60 * 1000 )
        => /\ ~e.result.duplicate
           /\ Cardinality(RowsWithUuid(e.scan.uuid)) = 1


\* C29: watermark-based pulling misses nothing: a device that has pulled until
\* a further pull would bring it nothing holds every event stored on the
\* server, also when an event was stored while one of its pulls was in
\* progress or carries an occurredAt older than its watermark.
C29_PullMissesNothing ==
    \A d \in PullDevices :
        (pull[d].stage = "idle" /\ PullComplete(d))
        => \A i \in 1..Len(scanLogsTable) :
              ToScan(scanLogsTable[i]) \in cachedScanLogs[d]


\* the scans handed to the logger, as the scan logs the app holds
LoggedHistory ==
    [i \in 1..Len(logScanCalls) |->
        ScanLog(logScanCalls[i].scanData.participantUuid,
                logScanCalls[i].scanData.checkpointId,
                logScanCalls[i].scanData.scannedAt)]

\* C30: one lap policy everywhere: for a scan history every scan of which the
\* logger wrote to the sheet, calculateJatraStats.totalJatras, the number of
\* JatraCompletions rows of the CSV export and the Jatra Number the logger
\* reached are equal, also when a Gheti scan has no Aamli scan before it.
C30_OneLapPolicy ==
    ( /\ sheetsConfigured
      /\ appendFailures = 0
      /\ \A i \in 1..Len(logScanCalls) : logScanCalls[i].result.success )
    => \A p \in LoggerParticipants, d \in LoggerDays :
          /\ calculateJatraStats(p, LoggedHistory).totalJatras
                = exportToCSV(p, LoggedHistory)
          /\ calculateJatraStats(p, LoggedHistory).totalJatras
                = jatraCounts[<<p, d>>]


\* C31: in the result of sync.pushChanges no submitted scan log is counted
\* twice: scanLogsCreated and scanLogsDuplicate add up to the number of scan
\* logs submitted, and scanLogsDuplicate is the number the gate rejected.
C31_CountsPartitionBatch ==
    \A d \in Devices :
        ( /\ request[d].kind = "pushChanges"
          /\ request[d].stage = "replied"
          /\ ~request[d].error )
        => LET result == pushChangesResult(request[d].results)
           IN  /\ result.scanLogsCreated + result.scanLogsDuplicate
                     = Len(request[d].scans)
               /\ result.scanLogsDuplicate
                     = Cardinality({i \in 1..Len(request[d].results) :
                                       request[d].results[i].duplicate})


RECURSIVE SumAt(_, _)
SumAt(key, S) ==
    IF S = {} THEN 0
    ELSE LET x == CHOOSE y \in S : TRUE IN AllowedAt(key, x) + SumAt(key, S \ {x})

\* the calls of the key that check() allowed at the instants from s to t
AllowedIn(key, s, t) ==
    SumAt(key, {i \in RateInstants : s <= i /\ i <= t})

\* C32 as stated: in any one-minute interval at most 60 check() calls of one
\* key are allowed.
C32_AtMostMaxPerMinute ==
    \A key \in RateKeys : \A s, t \in RateInstants :
        (s <= t /\ t - s < 60 * 1000) => AllowedIn(key, s, t) <= 60

\* C32 amended: per window at most 60 calls of a key are allowed: the count of
\* the key's entry is the number of calls allowed since its windowStart and
\* never exceeds 60; across the boundary of two windows up to 119 calls (all but
\* the first of one window and all of the next) are allowed within one minute,
\* and never more.
C32_AtMostMaxPerWindow ==
    \A key \in RateKeys :
        /\ key \in DOMAIN entries =>
              /\ entries[key].count <= 60
              /\ entries[key].windowStart <= now
              /\ AllowedIn(key, entries[key].windowStart, now) = entries[key].count
        /\ \A s, t \in RateInstants :
              (s <= t /\ t - s < 60 * 1000) => AllowedIn(key, s, t) <= 2 * 60 - 1

\* one call was allowed at 0, 59 more at 59 s and 60 s, and 60 more at 60.001 s
C32_Witness ==
    \E key \in RateKeys :
        /\ AllowedAt(key, 0) = 1
        /\ AllowedIn(key, 59 * 1000, 60 * 1000) = 59
        /\ AllowedAt(key, 60 * 1000 + 1) = 60
        /\ EntryOf(key).windowStart = 60 * 1000 + 1


\* C33: a key that check() refused with resetIn = r is allowed by the next
\* check() of the key when that is made r milliseconds later.
C33_RecoversAtResetIn ==
    [][\A key \in RateKeys :
          ( /\ key \in DOMAIN lastCheck
            /\ ~lastCheck[key].allowed
            /\ lastCheck'[key] # lastCheck[key]
            /\ lastCheck'[key].at = lastCheck[key].at + lastCheck[key].resetIn )
          => lastCheck'[key].allowed]_vars


KeptOrWritten(scanData) ==
    \/ \E k \in 1..Len(failedScans) : failedScans[k] = scanData
    \/ \E k \in 1..Len(scanLogsSheet) : scanLogsSheet[k] = ScanLogsRow(scanData)

C35_CompletionPerGhetiRow ==
    \A k \in 1..Len(scanLogsSheet) :
        LET row == scanLogsSheet[k]
        IN  row.checkpoint = 2 =>
              /\ Cardinality({j \in 1..Len(jatraCompletionsSheet) :
                                 /\ jatraCompletionsSheet[j].participant
                                       = row.participant
                                 /\ jatraCompletionsSheet[j].day = row.day
                                 /\ jatraCompletionsSheet[j].endTime = row.time})
                    = Cardinality({j \in 1..Len(scanLogsSheet) :
                                      scanLogsSheet[j] = row})
              /\ \E j \in 1..Len(recentScans[row.participant]) :
                    /\ recentScans[row.participant][j].checkpointId = 2
                    /\ recentScans[row.participant][j].timestamp = row.time
                    /\ recentScans[row.participant][j].day = row.day


\* the rows of the JatraCompletions sheet of one participant and day, in the
\* order they were written
CompletionsOf(p, d) ==
    SelectSeq(jatraCompletionsSheet,
              LAMBDA row : row.participant = p /\ row.day = d)

\* C36: for each participant and day the n-th row written to the
\* JatraCompletions sheet carries Jatra Number n, also after a write to the
\* sheet has failed.
C36_JatraNumbersInOrder ==
    \A p \in LoggerParticipants, d \in LoggerDays :
        \A n \in 1..Len(CompletionsOf(p, d)) :
            CompletionsOf(p, d)[n].jatraNumber = n

\* ------------------------------------------------------------------------
\* Scanner screen
\* ------------------------------------------------------------------------
\* C37: every invocation of handleBarCodeScanned or handleManualBadgeEntry
\* that has set isProcessing and awaits addScan is followed by a state in
\* which isProcessing is false again, whether addScan reports a duplicate, a
\* success, throws, or never settles before the 3-second timeout
C37_IsProcessingReset ==
    \A i \in Invocations :
        ( /\ i \in DOMAIN invocations
          /\ invocations[i].handler \in TimedHandlers
          /\ invocations[i].stage = "awaiting" )
            ~> ~isProcessing

\* C37: one invocation was released by its timeout while addScan is still
\* pending, another ended in its catch block, and isProcessing is false
C37_Witness ==
    /\ ~isProcessing
    /\ \E i \in DOMAIN invocations :
          /\ invocations[i].handler = "handleBarCodeScanned"
          /\ invocations[i].stage = "awaiting"
          /\ invocations[i].timer = "fired"
    /\ \E i \in DOMAIN invocations :
          /\ invocations[i].handler = "handleManualBadgeEntry"
          /\ invocations[i].stage = "done"
          /\ invocations[i].outcome = "throws"

C39_OneDeviceId ==
    \A i \in DOMAIN getDeviceIdCalls :
        getDeviceIdCalls[i].stage = "returned"
            => getDeviceIdCalls[i].returned = storedDeviceId

====
